---- MODULE Spec2Model ----
(***************************************************************************)
(* Content synchronisation pipeline of hashy-slack-app.                    *)
(*                                                                         *)
(*   - the Indexer  (src/indexer/app.py, handler): consumes an upsert      *)
(*     message, extracts the text, writes the Document row (the Ledger)    *)
(*     and reconciles the vectors of the source in the vector index;       *)
(*   - the Scheduler (src/scheduler/app.py, handler): polls every token    *)
(*     (integration), advances its cursor, selects the documents to        *)
(*     upsert and sends them to the queue.                                 *)
(*                                                                         *)
(* Spec           Indexer workers running concurrently, with failures and  *)
(*                redelivery.                                              *)
(* SpecSeq        one Indexer worker, failure-free, runs one after another.*)
(* SpecScheduler  Scheduler runs over a Ledger drawn from a bounded set.   *)
(* SpecBatch      one Indexer worker receiving batches of upsert, delete   *)
(*                and slack records, with failures.                        *)
(* SpecCap        full Scheduler runs, for ever, over an installation      *)
(*                whose listings reach UPSERT_LIMIT.                       *)
(***************************************************************************)
EXTENDS Integers, Sequences, FiniteSets, TLC

\* ------------------------------------------------------------------ bounds
\* The longest extracted text, in sentences (re.split of the text).
MaxSentences == 2
\* The number of Indexer workers (concurrent Lambda invocations).
NumWorkers == 2
\* The number of messages delivered to the workers of the concurrent
\* specification (redeliveries not counted).
MaxRuns == 3
\* The number of failed invocations in the concurrent specification.
MaxFails == 1
\* The latest timestamp (edit times, row timestamps).
MaxTime == 2
\* The number of Scheduler invocations.
MaxSchedRuns == 2
\* The largest batch of records one Indexer invocation receives.
MaxBatch == 2
\* The number of Notion integrations of the installation that reaches
\* UPSERT_LIMIT, and the number of documents on each of their listing pages.
NumCapNotion == 11
CapPage == 99

\* ---------------------------------------------------------- small domains
Users == {"U1", "U2"}
Team == "T1"
FileId == "F1"
FileName == "title"
Words == {"s1", "s2"}
Spreadsheet == "drive#file|application/vnd.google-apps.spreadsheet"
FileTypes == {"notion", Spreadsheet}
Workers == 1..NumWorkers
\* A NULL column / Python None.
Null == 0

Min(a, b) == IF a < b THEN a ELSE b

\* An extracted text, already split on sentence boundaries (REGEX_EXP);
\* the empty sequence is the empty text.
Texts == UNION {[1..n -> Words] : n \in 0..MaxSentences}

\* Upsert payloads for the one source the Indexer specifications follow.
Payloads ==
    [team : {Team}, user : Users, file_id : {FileId},
     filetype : FileTypes, file_name : {FileName}]

\* The inputs of the concurrent specification: texts that differ in length
\* only, and payloads of one file type.
RaceTexts == UNION {[1..n -> {"s1"}] : n \in 0..MaxSentences}
RacePayloads == {p \in Payloads : p.filetype = "notion"}

VARIABLES
    docs,       \* the document table: a sequence of rows, the row id is the position
    index,      \* the vector index: a function from the ids present to their metadata
    content,    \* the text of the source in the external system
    clock,      \* the database server's now()
    pc,         \* Indexer: where each worker stands in handler
    local,      \* Indexer: each worker's local variables
    period,     \* history: the current busy period of the Indexer workers
    lastRun,    \* history: the last completed Indexer run and the state it left
    runs,       \* history: the number of messages delivered so far
    fails,      \* history: the number of failed invocations so far
    tokens,     \* the notiontoken / googletoken tables: one row per integration
    source,     \* what the external listings report for every file
    sched,      \* Scheduler: position and local variables of handler
    queue,      \* the SQS queue: the message bodies sent, in order
    schedRuns,  \* history: the number of Scheduler invocations so far
    inv,        \* Indexer: the invocation over a batch of records (event['Records'])
    deleted,    \* history: the (file_id, user) pairs a delete record was processed for
    snap,       \* history: Ledger and index as the current record found them
    queries,    \* the query table: one row per chat thread already answered
    slack,      \* Indexer: where the slack branch of handler stands in a channel
    contentStore, \* the contentstore table (core): one row per source_id
    call,       \* history: the last call of a function or handler, with what it did
    chat        \* a chat channel: its messages, its Ledger row, what was extracted

indexerVars == <<index, content, pc, local, period, lastRun, runs, fails>>
schedulerVars == <<tokens, source, sched, queue, schedRuns>>
batchVars == <<inv, deleted, snap, queries, slack>>
coreVars == <<contentStore, call>>
vars == <<docs, clock, indexerVars, schedulerVars, batchVars, coreVars, chat>>

\* ------------------------------------------------------- Indexer: helpers

\* sentences = [file_name], replaced or extended by the split text.
Sentences(filetype, file_name, text) ==
    IF filetype = Spreadsheet /\ Len(text) > 0 THEN text
    ELSE IF Len(text) > 0 THEN <<file_name>> \o text
    ELSE <<file_name>>

\* extract_snippet(sentences, filetype, idx), idx counted from 0; the joined
\* snippet is kept as the sequence of the sentences it joins.
extract_snippet(sentences, filetype, idx) ==
    IF Len(sentences) = 1 THEN <<sentences[idx + 1]>>
    ELSE IF filetype = Spreadsheet THEN <<sentences[idx + 1]>>
    ELSE SubSeq(sentences, idx + 1, Min(idx + 2, Len(sentences)))

\* f"{team}-{file_id}-{i}"
VectorId(team, file_id, i) == <<team, file_id, i>>

\* The metadata upserted for sentence i of a payload.
VectorMeta(p, sentences, i) ==
    [title |-> p.file_name, team |-> p.team,
     text |-> extract_snippet(sentences, p.filetype, i), type |-> p.filetype]

\* chunks(iterable, batch_size): the batches, in order.
ChunksWithoutRemainder(s, batch_size) ==
    [j \in 1..(Len(s) \div batch_size) |->
        SubSeq(s, (j - 1) * batch_size + 1, j * batch_size)]
chunks(s, batch_size) ==
    [j \in 1..((Len(s) + batch_size - 1) \div batch_size) |->
        SubSeq(s, (j - 1) * batch_size + 1, Min(j * batch_size, Len(s)))]

\* range(a, b) as a sequence.
Range(a, b) == [k \in 1..(IF b > a THEN b - a ELSE 0) |-> a + k - 1]

SeqToSet(s) == {s[k] : k \in 1..Len(s)}

\* The batch size of index.upsert / index.delete calls.
INDEX_BATCH == 100

\* The rows db.query(Document).filter(Document.file_id == file_id) matches.
RowsOf(file_id) == {r \in 1..Len(docs) : docs[r].file_id = file_id}

\* prev_num_vectors = doc.num_vectors if doc and doc.num_vectors else 0
PrevNumVectors(doc) == IF doc # Null THEN docs[doc].num_vectors ELSE 0

\* The ids index.delete is called with: range(len(sentences), prev_num_vectors).
OrphanRangeNoDelete(n, prev) == <<>>
OrphanRange(n, prev) == Range(n, prev)

\* The value written to num_vectors: len(sentences).
NewNumVectorsIncrement(n, prev) == prev + n
NewNumVectors(n, prev) == n

\* The users written to an existing row: set(doc.users) with user added.
NewUsersReplaced(doc_users, user) == {user}
NewUsers(doc_users, user) == doc_users \cup {user}

\* The ids of this source present in the index, as chunk numbers.
PresentChunks(team, file_id) ==
    {id[3] : id \in {x \in DOMAIN index : x[1] = team /\ x[2] = file_id}}

\* The Ledger as the claims see it: users and num_vectors of every row.
LedgerView == {[file_id |-> docs[r].file_id, users |-> docs[r].users,
                num_vectors |-> docs[r].num_vectors] : r \in 1..Len(docs)}

\* The reconciliation invariant of the data model for the followed source.
Consistent ==
    /\ Len(docs) <= 1
    /\ IF Len(docs) = 0 THEN PresentChunks(Team, FileId) = {}
       ELSE PresentChunks(Team, FileId) = 0..(docs[1].num_vectors - 1)

IdleLocal == [msg |-> Null, sentences |-> <<>>, doc |-> Null, doc_users |-> {},
              prev |-> 0, batch |-> 0, retry |-> FALSE]

\* ------------------------------------------------------- Indexer: actions

\* A record of the batch is received and its text extracted (lines 342-496).
Begin(w, p, retry) ==
    /\ local' = [local EXCEPT ![w] =
            [msg |-> p,
             sentences |-> Sentences(p.filetype, p.file_name, content),
             doc |-> Null, doc_users |-> {}, prev |-> 0, batch |-> 0,
             retry |-> retry]]
    /\ pc' = [pc EXCEPT ![w] = "query"]
    /\ UNCHANGED <<docs, index, content, clock>>

Start(w, p) ==
    /\ pc[w] = "idle"
    /\ Begin(w, p, FALSE)

\* doc = db.query(Document).filter(...).first(): with no ORDER BY any
\* matching row may be the first.
Query(w) ==
    /\ pc[w] = "query"
    /\ \E d \in (IF RowsOf(local[w].msg.file_id) = {} THEN {Null}
                 ELSE RowsOf(local[w].msg.file_id)) :
          local' = [local EXCEPT ![w].doc = d,
                                 ![w].doc_users = IF d # Null THEN docs[d].users ELSE {},
                                 ![w].prev = PrevNumVectors(d)]
    /\ pc' = [pc EXCEPT ![w] = "write"]
    /\ UNCHANGED <<docs, index, content, clock>>

\* The row is updated or inserted, and committed (lines 510-523).
WriteLedger(w) ==
    /\ pc[w] = "write"
    /\ LET l == local[w]
           n == Len(l.sentences)
       IN IF l.doc # Null
          THEN docs' = [docs EXCEPT
                  ![l.doc].users = NewUsers(l.doc_users, l.msg.user),
                  ![l.doc].num_vectors = NewNumVectors(n, l.prev),
                  ![l.doc].time_updated = clock]
          ELSE docs' = Append(docs,
                  [file_id |-> l.msg.file_id, team |-> l.msg.team,
                   users |-> {l.msg.user},
                   num_vectors |-> n,
                   time_created |-> clock, time_updated |-> Null])
    /\ pc' = [pc EXCEPT ![w] = "upsert"]
    /\ UNCHANGED <<index, content, clock, local>>

\* One index.upsert call, for the next batch of vectors (lines 524-536).
UpsertBatch(w) ==
    /\ pc[w] = "upsert"
    /\ LET l == local[w]
           n == Len(l.sentences)
           batches == chunks(Range(0, n), INDEX_BATCH)
           b == SeqToSet(batches[l.batch + 1])
           ids == {VectorId(l.msg.team, l.msg.file_id, i) : i \in b}
           last == l.batch + 1 = Len(batches)
       IN /\ index' = [id \in DOMAIN index \cup ids |->
                          IF id \in ids
                          THEN VectorMeta(l.msg, l.sentences, id[3])
                          ELSE index[id]]
          /\ local' = [local EXCEPT ![w].batch = IF last THEN 0 ELSE l.batch + 1]
          /\ pc' = [pc EXCEPT ![w] =
                       IF ~last THEN "upsert"
                       ELSE IF l.prev > n THEN "delete" ELSE "done"]
    /\ UNCHANGED <<docs, content, clock>>

\* One index.delete call, for the next batch of orphaned ids (lines 538-542).
DeleteBatch(w) ==
    /\ pc[w] = "delete"
    /\ LET l == local[w]
           n == Len(l.sentences)
           batches == chunks(OrphanRange(n, l.prev), INDEX_BATCH)
       IN IF Len(batches) = 0
          THEN /\ pc' = [pc EXCEPT ![w] = "done"]
               /\ UNCHANGED <<index, local>>
          ELSE LET ids == {VectorId(l.msg.team, l.msg.file_id, i) :
                              i \in SeqToSet(batches[l.batch + 1])}
                   last == l.batch + 1 = Len(batches)
               IN /\ index' = [id \in DOMAIN index \ ids |-> index[id]]
                  /\ local' = [local EXCEPT ![w].batch = IF last THEN 0 ELSE l.batch + 1]
                  /\ pc' = [pc EXCEPT ![w] = IF last THEN "done" ELSE "delete"]
    /\ UNCHANGED <<docs, content, clock>>

\* An exception is raised (or the worker dies): the open transaction is
\* rolled back, which undoes nothing that was committed, and the
\* invocation fails (lines 543-548).
Fail(w) ==
    /\ pc[w] \in {"query", "write", "upsert", "delete"}
    /\ pc' = [pc EXCEPT ![w] = "failed"]
    /\ UNCHANGED <<docs, index, content, clock, local>>

\* The queue redelivers the message of a failed invocation.
Redeliver(w) ==
    /\ pc[w] = "failed"
    /\ Begin(w, local[w].msg, TRUE)

\* handler returns; the message is deleted from the queue.
Finish(w) ==
    /\ pc[w] = "done"
    /\ pc' = [pc EXCEPT ![w] = "idle"]
    /\ local' = [local EXCEPT ![w] = IdleLocal]
    /\ UNCHANGED <<docs, index, content, clock>>

\* The source is edited in the external system.
Edit(t) ==
    /\ content # t
    /\ content' = t
    /\ UNCHANGED <<docs, index, clock, pc, local>>

\* ----------------------------------------------------- Indexer: histories

AllIdle == \A w \in Workers : pc[w] = "idle"

NoPeriod == [cons |-> FALSE, overlapped |-> FALSE, failed |-> FALSE]

\* A busy period starts when a worker starts while all are idle; it records
\* whether Ledger and index agreed at its start, whether two runs overlapped
\* in it and whether a run failed in it.
PeriodOnStart ==
    period' = IF AllIdle
              THEN [cons |-> Consistent, overlapped |-> FALSE, failed |-> FALSE]
              ELSE [period EXCEPT !.overlapped = TRUE]

PeriodOnFail == period' = [period EXCEPT !.failed = TRUE]

\* The run that ends, with the Ledger and the index it leaves.
RunRecord(w) ==
    [valid |-> TRUE, msg |-> local[w].msg, sentences |-> local[w].sentences,
     index |-> index, ledger |-> LedgerView]

NoRun == [valid |-> FALSE, msg |-> Null, sentences |-> <<>>,
          index |-> <<>>, ledger |-> {}]

\* The invocation of handler over event['Records']: left counts the records
\* of the batch not yet taken by the loop, taken those taken.
BatchIdle == [state |-> "none", left |-> 0, taken |-> 0]

\* No call was made yet.
NoCall == [fn |-> ""]

\* A channel the bot has not joined: no message, no Ledger row.
ChatIdle == [joined |-> FALSE, posted |-> {}, extracted |-> {}, listed_at |-> 0,
             initial_at |-> 0, row |-> [present |-> FALSE, updated_at |-> 0]]

\* The slack branch is not running.
SlackIdle == [pc |-> "idle", todo |-> <<>>, cur |-> <<>>]

\* No record is being processed.
NoSnap == [valid |-> FALSE, kind |-> "", msg |-> Null, ledger |-> {}, index |-> <<>>]

\* ------------------------------------------------------ Scheduler: tables

Times == 1..MaxTime

\* UPSERT_LIMIT and the batch size of queue.send_messages.
UPSERT_LIMIT == 1000
SEND_BATCH == 10

TokenIds == {"tokN", "tokG"}
Files == {"F1", "F2", "F3"}
GoogleDoc == "drive#file|application/vnd.google-apps.document"

\* The rows of the notiontoken and googletoken tables.
InitialTokens ==
    [k \in TokenIds |->
        [type |-> IF k = "tokN" THEN "NotionToken" ELSE "GoogleToken",
         user_id |-> IF k = "tokN" THEN "U1" ELSE "U2",
         team |-> Team, last_cursor |-> Null, time_updated |-> Null]]

\* The pages of each integration's listing, as the external API serves
\* them: a page is named by its number, and Null names the first page.
CapNotionIds == {"n" \o ToString(i) : i \in 1..NumCapNotion}
CapGoogleId == "g1"
CapTokenIds == CapNotionIds \cup {CapGoogleId}
CapFile(k, page, i) == k \o "-" \o ToString(page) \o "-" \o ToString(i)
CapPageOf(k, page) == [i \in 1..CapPage |-> CapFile(k, page, i)]
CapFiles ==
    {CapFile(k, page, i) : k \in CapNotionIds, page \in 1..2, i \in 1..CapPage}
        \cup {CapFile(CapGoogleId, 1, 1)}

ListingPages(k) ==
    IF k = "tokN" THEN << <<"F1">>, <<"F2">> >>
    ELSE IF k = "tokS" THEN << <<FileId>> >>
    ELSE IF k = "tokG" THEN << <<"F3">> >>
    ELSE IF k = CapGoogleId THEN << <<CapFile(k, 1, 1)>> >>
    ELSE << CapPageOf(k, 1), CapPageOf(k, 2) >>

\* get_notion_search_results / get_google_search_results: the page the
\* stored cursor names and the cursor of the page after it.
SearchResults(k) ==
    LET page == IF tokens[k].last_cursor = Null THEN 1 ELSE tokens[k].last_cursor
    IN [results |-> ListingPages(k)[page],
        next_cursor |-> IF page < Len(ListingPages(k)) THEN page + 1 ELSE Null]

\* A sequence of the elements of S ordered by time_updated ascending
\* (order_by(time_updated.asc()): NULL sorts last).
SortKey(k) == IF tokens[k].time_updated = Null THEN MaxTime + 1
              ELSE tokens[k].time_updated
RECURSIVE OrderedByTimeUpdated(_)
OrderedByTimeUpdated(S) ==
    IF S = {} THEN <<>>
    ELSE LET k == CHOOSE x \in S : \A y \in S : SortKey(x) <= SortKey(y)
         IN <<k>> \o OrderedByTimeUpdated(S \ {k})

TokensOfType(t) == {k \in DOMAIN tokens : tokens[k].type = t}

\* query.first(): one of the rows that match, or nothing.
First(S) == IF S = {} THEN {<<>>} ELSE {<<k>> : k \in S}

\* get_tokens(db, user, team): the lists a call can return.
GetTokensOfAnyTeam(user, team) ==
    IF user # "" /\ team # ""
    THEN LET mine(t) == {k \in TokensOfType(t) : tokens[k].user_id = user}
         IN {n \o g : n \in First(mine("NotionToken")), g \in First(mine("GoogleToken"))}
    ELSE {OrderedByTimeUpdated(TokensOfType("NotionToken"))
            \o OrderedByTimeUpdated(TokensOfType("GoogleToken"))}
get_tokens(user, team) ==
    IF user # "" /\ team # ""
    THEN LET mine(t) == {k \in TokensOfType(t) :
                            tokens[k].user_id = user /\ tokens[k].team = team}
         IN {n \o g : n \in First(mine("NotionToken")), g \in First(mine("GoogleToken"))}
    ELSE {OrderedByTimeUpdated(TokensOfType("NotionToken"))
            \o OrderedByTimeUpdated(TokensOfType("GoogleToken"))}

\* last_updated_in_db = document.time_updated or document.time_created
LastUpdatedInDb(r) ==
    IF docs[r].time_updated # Null THEN docs[r].time_updated
    ELSE docs[r].time_created

\* The test that skips a listed document: it was not updated since the row
\* was written and the polling user already has access.
SkipDocumentNever(r, last_edited_time, user) == FALSE
SkipDocumentReversed(r, last_edited_time, user) ==
    /\ r # Null
    /\ LastUpdatedInDb(r) # Null
    /\ LastUpdatedInDb(r) < last_edited_time
    /\ user \in docs[r].users
SkipDocumentAnyUser(r, last_edited_time, user) ==
    /\ r # Null
    /\ LastUpdatedInDb(r) # Null
    /\ LastUpdatedInDb(r) > last_edited_time
SkipDocument(r, last_edited_time, user) ==
    /\ r # Null
    /\ LastUpdatedInDb(r) # Null
    /\ LastUpdatedInDb(r) > last_edited_time
    /\ user \in docs[r].users

\* The message body built for a listed file.
DocumentBody(k, f) ==
    [team |-> tokens[k].team, user |-> tokens[k].user_id, file_id |-> f,
     filetype |-> IF tokens[k].type = "NotionToken" THEN "notion" ELSE GoogleDoc,
     file_name |-> FileName]

\* get_notion_documents_to_upsert / get_google_documents_to_upsert over the
\* results of one page; first[f] is the row crud.get_document returned.
documents_to_upsert(k, results, first) ==
    LET Appended(f) ==
            /\ ~SkipDocument(first[f], source[f].last_edited_time, tokens[k].user_id)
            /\ ~(tokens[k].type = "NotionToken" /\ source[f].archived)
        kept == SelectSeq(results, Appended)
    IN [i \in 1..Len(kept) |-> DocumentBody(k, kept[i])]

\* The rows crud.get_document may return for each file of a page.
FirstRows(results) ==
    {first \in [SeqToSet(results) -> {Null} \cup (1..Len(docs))] :
        \A f \in SeqToSet(results) :
            IF RowsOf(f) = {} THEN first[f] = Null ELSE first[f] \in RowsOf(f)}

\* The entries appended to upserts for the documents of one token.
EntriesCapped(k, documents) ==
    [i \in 1..Min(Len(documents), UPSERT_LIMIT - Len(sched.upserts)) |->
        [MessageBody |-> documents[i],
         Id |-> <<documents[i].file_id, tokens[k].user_id>>,
         token |-> k, run |-> schedRuns]]
Entries(k, documents) ==
    [i \in 1..Len(documents) |->
        [MessageBody |-> documents[i],
         Id |-> <<documents[i].file_id, tokens[k].user_id>>,
         token |-> k, run |-> schedRuns]]

\* The local variables of handler; histories of the invocation: the tokens
\* polled, those whose stored cursor changed, the cursors stored when it
\* started, the number of documents selected for each token and the tokens
\* whose listing request was answered with an error payload.
SchedIdle == [pc |-> "idle", user |-> "", team |-> "", tokens |-> <<>>,
              upserts |-> <<>>, sent |-> 0, polled |-> {}, moved |-> {},
              raised |-> "", cursors |-> <<>>, selected |-> {}, errored |-> {}]

\* --------------------------------------------------- Scheduler: actions

\* handler is invoked, for all tokens or for one (team, user) pair
\* (lines 213-236).
SchedStart(user, team) ==
    /\ sched.pc \in {"idle", "aborted", "crashed"}
    /\ \E found \in get_tokens(user, team) :
          sched' = [SchedIdle EXCEPT !.pc = "loop", !.user = user, !.team = team,
                                    !.tokens = found,
                                    !.cursors = [k \in DOMAIN tokens |-> tokens[k].last_cursor]]
    /\ UNCHANGED <<docs, clock, indexerVars, batchVars, coreVars, chat, tokens, source, queue>>

SchedPollTouchesLedger ==
    /\ sched.pc = "loop"
    /\ Len(sched.tokens) > 0
    /\ Len(sched.upserts) < UPSERT_LIMIT
    /\ LET k == Head(sched.tokens)
           search_results == SearchResults(k)
       IN \E first \in FirstRows(search_results.results) :
            /\ tokens' = [tokens EXCEPT
                    ![k].last_cursor = search_results.next_cursor,
                    ![k].time_updated = clock]
            /\ sched' = [sched EXCEPT
                    !.tokens = Tail(sched.tokens),
                    !.upserts = sched.upserts \o
                        Entries(k, documents_to_upsert(k, search_results.results, first)),
                    !.polled = sched.polled \cup {k},
                    !.selected = sched.selected \cup
                        {<<k, Len(documents_to_upsert(k, search_results.results, first))>>},
                    !.moved = IF search_results.next_cursor # tokens[k].last_cursor
                              THEN sched.moved \cup {k} ELSE sched.moved]
    /\ docs' = [r \in 1..Len(docs) |->
                    IF docs[r].file_id \in SeqToSet(SearchResults(Head(sched.tokens)).results)
                    THEN [docs[r] EXCEPT !.time_updated = clock] ELSE docs[r]]
    /\ UNCHANGED <<index, content>>
    /\ UNCHANGED <<clock, pc, local, period, lastRun, runs, fails, batchVars, coreVars, chat, source, queue, schedRuns>>

\* One iteration of the token loop: process(db, token) lists the page at
\* the stored cursor, stores the next cursor, selects the documents, and
\* the loop appends them to upserts (lines 237-247, 191-210).
SchedPoll ==
    /\ sched.pc = "loop"
    /\ Len(sched.tokens) > 0
    /\ Len(sched.upserts) < UPSERT_LIMIT
    /\ LET k == Head(sched.tokens)
           search_results == SearchResults(k)
       IN \E first \in FirstRows(search_results.results) :
            /\ tokens' = [tokens EXCEPT
                    ![k].last_cursor = search_results.next_cursor,
                    ![k].time_updated = clock]
            /\ sched' = [sched EXCEPT
                    !.tokens = Tail(sched.tokens),
                    !.upserts = sched.upserts \o
                        Entries(k, documents_to_upsert(k, search_results.results, first)),
                    !.polled = sched.polled \cup {k},
                    !.selected = sched.selected \cup
                        {<<k, Len(documents_to_upsert(k, search_results.results, first))>>},
                    !.moved = IF search_results.next_cursor # tokens[k].last_cursor
                              THEN sched.moved \cup {k} ELSE sched.moved]
    /\ UNCHANGED <<docs, clock, indexerVars, batchVars, coreVars, chat, source, queue, schedRuns>>

\* The listing request of the next token raises: nothing catches it in
\* process or in handler, so the invocation ends there.
SchedPollRaises ==
    /\ sched.pc = "loop"
    /\ Len(sched.tokens) > 0
    /\ Len(sched.upserts) < UPSERT_LIMIT
    /\ sched' = [sched EXCEPT !.pc = "aborted", !.raised = Head(sched.tokens)]
    /\ UNCHANGED <<docs, clock, indexerVars, batchVars, coreVars, chat, tokens, source, queue, schedRuns>>

\* The Notion search answers the next token with an error payload (an
\* object with neither results nor next_cursor, as for a revoked token):
\* requests.post(...).json() does not raise, process stores
\* search_results.get("next_cursor"), which is None, and no document is
\* selected (lines 195-200, 117).
SchedPollErrorPayload ==
    /\ sched.pc = "loop"
    /\ Len(sched.tokens) > 0
    /\ Len(sched.upserts) < UPSERT_LIMIT
    /\ LET k == Head(sched.tokens)
       IN /\ tokens[k].type = "NotionToken"
          /\ tokens' = [tokens EXCEPT ![k].last_cursor = Null,
                                      ![k].time_updated = clock]
          /\ sched' = [sched EXCEPT
                  !.tokens = Tail(sched.tokens),
                  !.errored = sched.errored \cup {k},
                  !.moved = IF tokens[k].last_cursor # Null
                            THEN sched.moved \cup {k} ELSE sched.moved]
    /\ UNCHANGED <<docs, clock, indexerVars, batchVars, coreVars, chat, source, queue, schedRuns>>

\* The loop ends: no token is left, or the limit is reached (line 238).
SchedEndLoop ==
    /\ sched.pc = "loop"
    /\ (Len(sched.tokens) = 0 \/ Len(sched.upserts) >= UPSERT_LIMIT)
    /\ sched' = [sched EXCEPT !.pc = "send"]
    /\ UNCHANGED <<docs, clock, indexerVars, batchVars, coreVars, chat, tokens, source, queue, schedRuns>>

\* queue.send_messages for the next batch of entries (lines 250-251).
SchedSend ==
    /\ sched.pc = "send"
    /\ sched.sent < Len(sched.upserts)
    /\ LET batches == chunks(sched.upserts, SEND_BATCH)
           done == sched.sent \div SEND_BATCH
           batch == batches[done + 1]
       IN /\ queue' = queue \o batch
          /\ sched' = [sched EXCEPT !.sent = sched.sent + Len(batch)]
    /\ UNCHANGED <<docs, clock, indexerVars, batchVars, coreVars, chat, tokens, source, schedRuns>>

\* Every batch is sent: handler returns (lines 253-254).
SchedReturn ==
    /\ sched.pc = "send"
    /\ sched.sent = Len(sched.upserts)
    /\ sched' = [sched EXCEPT !.pc = "idle"]
    /\ UNCHANGED <<docs, clock, indexerVars, batchVars, coreVars, chat, tokens, source, queue, schedRuns>>

\* The invocation dies (timeout, out of memory, a send that raises).
SchedCrash ==
    /\ sched.pc \in {"loop", "send"}
    /\ sched' = [sched EXCEPT !.pc = "crashed"]
    /\ UNCHANGED <<docs, clock, indexerVars, batchVars, coreVars, chat, tokens, source, queue, schedRuns>>

\* The Scheduler before its first invocation.
SchedulerAtRest ==
    /\ tokens = InitialTokens
    /\ source = [f \in Files |-> [last_edited_time |-> 1, archived |-> FALSE]]
    /\ sched = SchedIdle
    /\ queue = <<>>
    /\ schedRuns = 0

\* The rows the Indexer may have written for a file on behalf of one user:
\* inserted at time 1 and either never updated (the reader falls back on
\* time_created) or updated at a later time (the reader takes time_updated).
NoRow == [present |-> FALSE, users |-> {}, time_created |-> 1, time_updated |-> Null]
RowChoices ==
    {NoRow} \cup
    {[present |-> TRUE, users |-> U, time_created |-> 1, time_updated |-> u] :
        U \in {{u} : u \in Users},
        u \in {Null} \cup (Times \ {1})}

\* F1 and F3 take every choice and every edit time; F2, the file that may be
\* archived, has no row yet and the first edit time.
RowChoicesOf(f) == IF f = "F2" THEN {NoRow} ELSE RowChoices
EditTimesOf(f) == IF f = "F2" THEN {1} ELSE Times

\* The document table holding the chosen rows, one file after the other.
RECURSIVE RowsFrom(_, _)
RowsFrom(files, choice) ==
    IF Len(files) = 0 THEN <<>>
    ELSE LET f == Head(files)
             rest == RowsFrom(Tail(files), choice)
         IN IF choice[f].present
            THEN <<[file_id |-> f, team |-> Team, users |-> choice[f].users,
                    num_vectors |-> 1,
                    time_created |-> choice[f].time_created,
                    time_updated |-> choice[f].time_updated]>> \o rest
            ELSE rest

\* The Scheduler starts over any Ledger the Indexer may have left (every
\* row with its title vector in the index) and any listing.
InitScheduler ==
    /\ \E choice \in {c \in [Files -> RowChoices] :
                          \A f \in Files : c[f] \in RowChoicesOf(f)} :
          /\ docs = RowsFrom(<<"F1", "F2", "F3">>, choice)
          /\ index = [id \in {VectorId(Team, f, 0) : f \in {g \in Files : choice[g].present}}
                        |-> [title |-> FileName, team |-> Team,
                             text |-> <<FileName>>, type |-> "notion"]]
    /\ source \in [Files -> [last_edited_time : Times, archived : BOOLEAN]]
    /\ \A f \in Files : /\ source[f].archived => f = "F2"
                         /\ source[f].last_edited_time \in EditTimesOf(f)
    /\ tokens = InitialTokens
    /\ sched = SchedIdle
    /\ queue = <<>>
    /\ schedRuns = 0
    /\ content = <<>>
    /\ clock = MaxTime
    /\ pc = [w \in Workers |-> "idle"]
    /\ local = [w \in Workers |-> IdleLocal]
    /\ period = NoPeriod
    /\ lastRun = NoRun
    /\ runs = 0
    /\ fails = 0
    /\ inv = BatchIdle
    /\ deleted = {}
    /\ snap = NoSnap
    /\ queries = {}
    /\ slack = SlackIdle
    /\ contentStore = {}
    /\ call = NoCall
    /\ chat = ChatIdle

NextScheduler ==
    \/ \E user \in Users :
          /\ schedRuns < MaxSchedRuns
          /\ SchedStart(user, Team) /\ schedRuns' = schedRuns + 1
    \/ /\ schedRuns < MaxSchedRuns
       /\ SchedStart("", "") /\ schedRuns' = schedRuns + 1
    \/ SchedPoll
    \/ SchedPollRaises
    \/ SchedPollErrorPayload
    \/ SchedEndLoop
    \/ SchedSend
    \/ SchedReturn
    \/ SchedCrash

InitIndexer ==
    /\ docs = <<>>
    /\ index = <<>>
    /\ content = <<>>
    /\ clock = 1
    /\ pc = [w \in Workers |-> "idle"]
    /\ local = [w \in Workers |-> IdleLocal]
    /\ period = NoPeriod
    /\ lastRun = NoRun
    /\ runs = 0
    /\ fails = 0
    /\ inv = BatchIdle
    /\ deleted = {}
    /\ snap = NoSnap
    /\ queries = {}
    /\ slack = SlackIdle
    /\ contentStore = {}
    /\ call = NoCall
    /\ chat = ChatIdle

Init == InitIndexer /\ SchedulerAtRest



Next ==
    \/ \E w \in Workers, p \in RacePayloads :
          /\ runs < MaxRuns
          /\ Start(w, p) /\ PeriodOnStart
          /\ runs' = runs + 1 /\ UNCHANGED <<lastRun, fails, schedulerVars, batchVars, coreVars, chat>>
    \/ \E w \in Workers : Query(w) /\ UNCHANGED <<period, lastRun, runs, fails, schedulerVars, batchVars, coreVars, chat>>
    \/ \E w \in Workers : WriteLedger(w) /\ UNCHANGED <<period, lastRun, runs, fails, schedulerVars, batchVars, coreVars, chat>>
    \/ \E w \in Workers : UpsertBatch(w) /\ UNCHANGED <<period, lastRun, runs, fails, schedulerVars, batchVars, coreVars, chat>>
    \/ \E w \in Workers : DeleteBatch(w) /\ UNCHANGED <<period, lastRun, runs, fails, schedulerVars, batchVars, coreVars, chat>>
    \/ \E w \in Workers :
          /\ fails < MaxFails
          /\ Fail(w) /\ PeriodOnFail
          /\ fails' = fails + 1 /\ UNCHANGED <<lastRun, runs, schedulerVars, batchVars, coreVars, chat>>
    \/ \E w \in Workers : Redeliver(w) /\ UNCHANGED <<period, lastRun, runs, fails, schedulerVars, batchVars, coreVars, chat>>
    \/ \E w \in Workers : Finish(w) /\ UNCHANGED <<period, lastRun, runs, fails, schedulerVars, batchVars, coreVars, chat>>
    \/ \E t \in RaceTexts : Edit(t) /\ UNCHANGED <<period, lastRun, runs, fails, schedulerVars, batchVars, coreVars, chat>>

Spec == Init /\ [][Next]_vars

\* One worker, no failure: runs follow one another.
NextSeq ==
    \/ \E p \in Payloads : Start(1, p) /\ UNCHANGED <<period, lastRun, runs, fails, schedulerVars, batchVars, coreVars, chat>>
    \/ Query(1) /\ UNCHANGED <<period, lastRun, runs, fails, schedulerVars, batchVars, coreVars, chat>>
    \/ WriteLedger(1) /\ UNCHANGED <<period, lastRun, runs, fails, schedulerVars, batchVars, coreVars, chat>>
    \/ UpsertBatch(1) /\ UNCHANGED <<period, lastRun, runs, fails, schedulerVars, batchVars, coreVars, chat>>
    \/ DeleteBatch(1) /\ UNCHANGED <<period, lastRun, runs, fails, schedulerVars, batchVars, coreVars, chat>>
    \/ Finish(1) /\ lastRun' = RunRecord(1) /\ UNCHANGED <<period, runs, fails, schedulerVars, batchVars, coreVars, chat>>
    \/ \E t \in Texts : Edit(t) /\ UNCHANGED <<period, lastRun, runs, fails, schedulerVars, batchVars, coreVars, chat>>

SpecSeq == Init /\ [][NextSeq]_vars

\* Scheduler invocations over a Ledger that does not change meanwhile.
SpecScheduler == InitScheduler /\ [][NextScheduler]_vars

\* ------------------------------------- Scheduler: reaching UPSERT_LIMIT
\* An installation with many Notion integrations, each listing two pages of
\* documents, and one Google integration; no document has a Ledger row.
InitCap ==
    /\ InitIndexer
    /\ tokens = [k \in CapTokenIds |->
            [type |-> IF k = CapGoogleId THEN "GoogleToken" ELSE "NotionToken",
             user_id |-> "U" \o k, team |-> Team,
             last_cursor |-> Null, time_updated |-> Null]]
    /\ source = [f \in CapFiles |-> [last_edited_time |-> 1, archived |-> FALSE]]
    /\ sched = SchedIdle
    /\ queue = <<>>
    /\ schedRuns = 0

\* The messages sent are received by the Indexer's event source.
QueueDrained ==
    /\ sched.pc = "idle"
    /\ queue # <<>>
    /\ queue' = <<>>
    /\ UNCHANGED <<docs, clock, indexerVars, batchVars, coreVars, chat, tokens, source, sched, schedRuns>>

NextCap ==
    \/ queue = <<>> /\ SchedStart("", "") /\ UNCHANGED schedRuns
    \/ SchedPoll
    \/ SchedEndLoop
    \/ SchedSend
    \/ SchedReturn
    \/ QueueDrained

\* Full Scheduler runs, one after the other for ever (the Scheduler is
\* triggered on a fixed interval and a run that does not fail ends); the
\* messages of a run are received before the next run starts.
SpecCap == InitCap /\ [][NextCap]_vars /\ WF_vars(NextCap)

\* ------------------------------------------- Indexer: a batch of records
\* One invocation of handler loops over event['Records'] (line 342).  The
\* queue holds the messages from the start; it delivers them at least once
\* and in any order, and nothing is enqueued meanwhile.

\* {"type": "delete", "file_id": ..., "user": ...}
DeleteMessages == [type : {"delete"}, file_id : {FileId}, user : Users]
\* {"type": "slack", "team": ...}
SlackMessages == [type : {"slack"}, team : {Team}]
\* The thread of the team's channel the slack branch finds.
QueryId == "p1"

\* Ledger and index as a record finds them; kind tells what the record is
\* and, for an upsert, what the reader gave: "text", "empty" (the Notion
\* reader caught an exception and returned ""), "raised".
Snapshot(kind, msg) ==
    [valid |-> TRUE, kind |-> kind, msg |-> msg, ledger |-> LedgerView, index |-> index]

\* The id and the metadata of an answer vector (lines 412-426): the id is
\* the query_id, written in the shape of the other ids.
AnswerId(query_id) == <<"answer", query_id, 0>>
AnswerMeta(team) ==
    [title |-> QueryId, team |-> team, text |-> <<QueryId>>, type |-> "answer"]

\* The row of the query table for a thread (lines 404-408).
QueryRow(user, query_id) == [user |-> user, query_id |-> query_id]

\* doc.users.remove(user)
UsersAfterDelete(users, user) == users \ {user}

\* handler is invoked with n records.
Invoke(n) ==
    /\ inv.state \in {"none", "returned", "failed"}
    /\ inv' = [state |-> "running", left |-> n, taken |-> 0]
    /\ pc' = [pc EXCEPT ![1] = "idle"]
    /\ local' = [local EXCEPT ![1] = IdleLocal]
    /\ snap' = NoSnap
    /\ UNCHANGED <<docs, index, content, clock, deleted, queries, slack>>

\* The loop takes the next record of the batch.
CanTake == inv.state = "running" /\ inv.left > 0 /\ pc[1] = "idle"
TakeRecord == inv' = [inv EXCEPT !.left = @ - 1, !.taken = @ + 1]

\* An upsert record whose text is extracted (lines 431-496).
UpsertRecord(p) ==
    /\ CanTake
    /\ Start(1, p)
    /\ TakeRecord
    /\ snap' = Snapshot("text", p)
    /\ UNCHANGED <<deleted, queries, slack>>

\* An upsert record of a Notion page whose extraction fails:
\* _get_notion_document_text logs the exception and returns "" (lines
\* 194-196), and the handler goes on with sentences = [file_name].
UpsertRecordNoText(p) ==
    /\ CanTake
    /\ p.filetype = "notion"
    /\ local' = [local EXCEPT ![1] =
            [IdleLocal EXCEPT !.msg = p,
                              !.sentences = Sentences(p.filetype, p.file_name, <<>>)]]
    /\ pc' = [pc EXCEPT ![1] = "query"]
    /\ TakeRecord
    /\ snap' = Snapshot("empty", p)
    /\ UNCHANGED <<docs, index, content, clock, deleted, queries, slack>>

\* An upsert record of a Drive file whose extraction raises: nothing
\* catches it (lines 469-488 are outside the try), the invocation fails.
UpsertRecordRaises(p) ==
    /\ CanTake
    /\ p.filetype # "notion"
    /\ local' = [local EXCEPT ![1] = [IdleLocal EXCEPT !.msg = p]]
    /\ pc' = [pc EXCEPT ![1] = "failed"]
    /\ inv' = [inv EXCEPT !.state = "failed", !.left = @ - 1, !.taken = @ + 1]
    /\ snap' = Snapshot("raised", p)
    /\ UNCHANGED <<docs, index, content, clock, deleted, queries, slack>>

\* An upsert payload whose mimetype and filetype name no reader.
UnsupportedPayloads ==
    [team : {Team}, user : {"U1"}, file_id : {FileId},
     filetype : {"zendesk"}, file_name : {FileName}]

\* An upsert record of a type no branch of the dispatch names: the else
\* branch continues with the next record (lines 489-490).
UnsupportedRecordRaises(p) ==
    /\ CanTake
    /\ local' = [local EXCEPT ![1] = [IdleLocal EXCEPT !.msg = p]]
    /\ pc' = [pc EXCEPT ![1] = "failed"]
    /\ inv' = [inv EXCEPT !.state = "failed", !.left = @ - 1, !.taken = @ + 1]
    /\ snap' = Snapshot("unsupported", p)
    /\ UNCHANGED <<docs, index, content, clock, deleted, queries, slack>>
UpsertRecordUnsupported(p) ==
    /\ CanTake
    /\ TakeRecord
    /\ snap' = Snapshot("unsupported", p)
    /\ UNCHANGED <<docs, index, content, clock, pc, local, deleted, queries, slack>>

\* A delete record (lines 348-363): the user is removed from the users of
\* the first row found, and every row of the file is given that list.
DeleteRecord(m) ==
    /\ CanTake
    /\ \E d \in (IF RowsOf(m.file_id) = {} THEN {Null} ELSE RowsOf(m.file_id)) :
          IF d # Null /\ m.user \in docs[d].users
          THEN docs' = [r \in 1..Len(docs) |->
                          IF docs[r].file_id = docs[d].file_id
                          THEN [docs[r] EXCEPT
                                  !.users = UsersAfterDelete(docs[d].users, m.user),
                                  !.time_updated = clock]
                          ELSE docs[r]]
          ELSE docs' = docs
    /\ TakeRecord
    /\ snap' = Snapshot("delete", m)
    /\ deleted' = deleted \cup {<<m.file_id, m.user>>}
    /\ UNCHANGED <<queries, slack>>
    /\ UNCHANGED <<index, content, clock, pc, local>>

\* A slack record (lines 364-428): the thread not yet in the query table
\* gets a row and an answer vector.
SlackRecord(m) ==
    /\ CanTake
    /\ IF QueryRow("U1", QueryId) \in queries
       THEN UNCHANGED <<index, queries>>
       ELSE /\ queries' = queries \cup {QueryRow("U1", QueryId)}
            /\ index' = [id \in DOMAIN index \cup {AnswerId(QueryId)} |->
                            IF id = AnswerId(QueryId)
                            THEN AnswerMeta(m.team) ELSE index[id]]
    /\ TakeRecord
    /\ snap' = Snapshot("slack", m)
    /\ UNCHANGED <<docs, content, clock, pc, local, deleted, slack>>

\* An exception in the try block of an upsert record: the invocation fails.
RecordFails ==
    /\ inv.state = "running"
    /\ Fail(1)
    /\ inv' = [inv EXCEPT !.state = "failed"]
    /\ UNCHANGED <<deleted, queries, slack, snap>>

\* The record is done, the loop goes on.
RecordDone ==
    /\ inv.state = "running"
    /\ Finish(1)
    /\ UNCHANGED <<inv, deleted, queries, slack, snap>>

\* No record is left: engine.dispose(), handler returns (line 550).
Return ==
    /\ inv.state = "running"
    /\ inv.left = 0
    /\ pc[1] = "idle"
    /\ inv' = [inv EXCEPT !.state = "returned"]
    /\ UNCHANGED <<docs, index, content, clock, pc, local, deleted, queries, slack, snap>>

NextBatch ==
    \/ \E n \in 1..MaxBatch : Invoke(n) /\ UNCHANGED <<period, lastRun, runs, fails, schedulerVars, coreVars, chat>>
    \/ \E p \in Payloads : UpsertRecord(p) /\ UNCHANGED <<period, lastRun, runs, fails, schedulerVars, coreVars, chat>>
    \/ \E p \in Payloads : UpsertRecordNoText(p) /\ UNCHANGED <<period, lastRun, runs, fails, schedulerVars, coreVars, chat>>
    \/ \E p \in Payloads : UpsertRecordRaises(p) /\ UNCHANGED <<period, lastRun, runs, fails, schedulerVars, coreVars, chat>>
    \/ \E m \in DeleteMessages : DeleteRecord(m) /\ UNCHANGED <<period, lastRun, runs, fails, schedulerVars, coreVars, chat>>
    \/ \E m \in SlackMessages : SlackRecord(m) /\ UNCHANGED <<period, lastRun, runs, fails, schedulerVars, coreVars, chat>>
    \/ (inv.state = "running" /\ Query(1)) /\ UNCHANGED <<period, lastRun, runs, fails, schedulerVars, batchVars, coreVars, chat>>
    \/ (inv.state = "running" /\ WriteLedger(1)) /\ UNCHANGED <<period, lastRun, runs, fails, schedulerVars, batchVars, coreVars, chat>>
    \/ (inv.state = "running" /\ UpsertBatch(1)) /\ UNCHANGED <<period, lastRun, runs, fails, schedulerVars, batchVars, coreVars, chat>>
    \/ (inv.state = "running" /\ DeleteBatch(1)) /\ UNCHANGED <<period, lastRun, runs, fails, schedulerVars, batchVars, coreVars, chat>>
    \/ RecordFails /\ UNCHANGED <<period, lastRun, runs, fails, schedulerVars, coreVars, chat>>
    \/ RecordDone /\ UNCHANGED <<period, lastRun, runs, fails, schedulerVars, coreVars, chat>>
    \/ Return /\ UNCHANGED <<period, lastRun, runs, fails, schedulerVars, coreVars, chat>>
    \/ \E t \in RaceTexts : (AllIdle /\ Edit(t)) /\ UNCHANGED <<period, lastRun, runs, fails, schedulerVars, batchVars, coreVars, chat>>

\* One Indexer worker receiving batches of upsert, delete and slack records.
SpecBatch == Init /\ [][NextBatch]_vars


\* ================================================================ claims
\* The vectors one failure-free run of worker w's message leaves for its source.
RunVectorsPresent(w) ==
    \A i \in 0..(Len(local[w].sentences) - 1) :
        LET id == VectorId(local[w].msg.team, local[w].msg.file_id, i)
        IN id \in DOMAIN index
           /\ index[id] = VectorMeta(local[w].msg, local[w].sentences, i)

\* C1: after any sequence of non-overlapping, failure-free upsert runs for
\* one source the vector ids present for it are exactly 0 .. k-1, k being
\* the num_vectors of its one Ledger row (checked whenever no run is in
\* progress, under SpecSeq).
C1_ReconciledAfterRuns ==
    pc[1] \in {"idle", "done"} => Consistent

\* C1 witness: a run that shrank the source from 3 to 2 vectors has ended.
C1_Witness ==
    /\ pc[1] = "done"
    /\ local[1].prev = 3
    /\ Len(local[1].sentences) = 2
    /\ PresentChunks(Team, FileId) = {0, 1}
    /\ docs[1].num_vectors = 2

\* C2 (as claimed): the Ledger row is committed only after every vector
\* upsert and orphan deletion of the run: no worker has committed its row
\* while its index calls are still to be made.
LedgerCommitted(w) == pc[w] \in {"upsert", "delete", "done"}
IndexCallsDone(w) == pc[w] = "done"
C2_LedgerWrittenLast ==
    \A w \in Workers : LedgerCommitted(w) => IndexCallsDone(w)

\* C3 (as claimed): when a run that failed is redelivered and completes,
\* with no other run overlapping and Ledger and index agreeing before the
\* first attempt, the source is left as by one failure-free run: one row
\* recording the new chunk count, the new vectors, and no id at or above
\* the new chunk count.
C3_RetryEqualsCleanRun ==
    \A w \in Workers :
        (pc[w] = "done" /\ local[w].retry /\ period.cons /\ ~period.overlapped)
        => /\ PresentChunks(Team, FileId) = 0..(Len(local[w].sentences) - 1)
           /\ RunVectorsPresent(w)
           /\ Len(docs) = 1
           /\ docs[1].num_vectors = Len(local[w].sentences)

\* C4: processing the same upsert message twice in sequence with the
\* extracted content unchanged leaves the index (ids and metadata) and the
\* Ledger (num_vectors, users) as they were after the first run.
SameAsLastRun ==
    /\ pc[1] = "done"
    /\ lastRun.valid
    /\ lastRun.msg = local[1].msg
    /\ lastRun.sentences = local[1].sentences
C4_IdempotentUpsert ==
    SameAsLastRun => (index = lastRun.index /\ LedgerView = lastRun.ledger)

\* C4 witness: a second run of the same message over a text of two
\* sentences has ended.
C4_Witness ==
    /\ SameAsLastRun
    /\ Len(content) = 2
    /\ Len(local[1].sentences) = 3
    /\ DOMAIN index = {VectorId(Team, FileId, i) : i \in 0..2}

\* C5 (as claimed): at most one Ledger row exists for a source_id in every
\* reachable state.
C5_OneRowPerSource ==
    Cardinality(RowsOf(FileId)) <= 1

\* C6 (as claimed): when two workers that processed the same source
\* concurrently, without failure, have both finished, the vector ids
\* present are exactly 0 .. k-1 for the k recorded in the Ledger row.
C6_ConcurrentRunsReconciled ==
    ((\A w \in Workers : pc[w] = "done")
        /\ period.cons /\ ~period.failed /\ Len(docs) = 1)
    => PresentChunks(Team, FileId) = 0..(docs[1].num_vectors - 1)

\* The number of messages sent so far for file f on behalf of user u.
SentCount(f, u) == Cardinality({i \in 1..Len(queue) : queue[i].Id = <<f, u>>})

\* The Ledger records f for user u later than the file's last edit.
Recorded(f, u) ==
    \E r \in RowsOf(f) :
        LastUpdatedInDb(r) > source[f].last_edited_time /\ u \in docs[r].users

\* Every entry selected from token k's page in this run has been sent.
AllSentOf(k) ==
    \A i \in 1..Len(sched.upserts) : sched.upserts[i].token = k => i <= sched.sent

\* C7 (as claimed): the stored cursor of an integration is advanced past a
\* listing page only after every descriptor selected from that page has
\* been sent to the queue.
C7_CursorAdvancedAfterSend ==
    \A k \in sched.moved : AllSentOf(k)

C10_OthersStillScheduled ==
    sched.pc = "aborted"
    => \A found \in get_tokens(sched.user, sched.team) :
          \A k \in SeqToSet(found) \ {sched.raised} :
              k \in sched.polled /\ AllSentOf(k)

\* C11 (as claimed): within one batch of records an error while processing
\* one record does not prevent the records that follow it from being
\* processed: an invocation that met an error has still taken every record
\* of its batch.
C11_ErrorDoesNotBlockBatch ==
    inv.state = "failed" => inv.left = 0

\* C12 (as claimed): when text extraction fails (the reader raises or
\* returns no text) for an item that already has a Ledger row, the item is
\* skipped: the row's num_vectors and users and the vectors of the source
\* stay as the record found them.
C12_ReaderFailureSkipsItem ==
    (snap.valid /\ snap.kind \in {"empty", "raised"} /\ snap.ledger # {})
    => (LedgerView = snap.ledger /\ index = snap.index)

\* C13 (as claimed): once a delete record for a source has been processed,
\* the index holds no vector id of that source and the Ledger no row for it.
C13_DeleteRemovesVectorsAndRow ==
    (snap.valid /\ snap.kind = "delete")
    => (RowsOf(snap.msg.file_id) = {}
        /\ PresentChunks(Team, snap.msg.file_id) = {})

\* C14: when the Indexer upserts, on behalf of user u, a source whose
\* Ledger row carried the access list U after the previous run, the row's
\* access list afterwards is exactly U united with {u}.
C14_AccessUnionOnUpsert ==
    (pc[1] = "done" /\ lastRun.valid)
    => \A row \in lastRun.ledger :
          \A r \in RowsOf(row.file_id) :
              docs[r].users = row.users \cup {local[1].msg.user}

\* C14 witness: a run on behalf of U2 has ended on a source the previous
\* run left with the access list {U1}.
C14_Witness ==
    /\ pc[1] = "done"
    /\ lastRun.valid
    /\ \E row \in lastRun.ledger : row.users = {"U1"}
    /\ local[1].msg.user = "U2"
    /\ Len(docs) = 1
    /\ docs[1].users = {"U1", "U2"}

\* C15 (as claimed): the access list of a Ledger row is append-only: no
\* step of the Indexer, whatever the type of the record, removes a user
\* from the users of a row.
C15_AccessListAppendOnly ==
    [][\A r \in 1..Len(docs) : docs[r].users \subseteq docs'[r].users]_vars

\* C16 (as claimed): the number of messages one Scheduler run sends to the
\* queue never exceeds UPSERT_LIMIT.
C16_SentWithinCap ==
    sched.sent <= UPSERT_LIMIT

\* The number of messages sent in this run for the documents of token k.
SentOf(k) ==
    Cardinality({i \in 1..sched.sent : sched.upserts[i].token = k})

\* C17: in a Scheduler run that completes, every integration whose cursor
\* was advanced has had every document selected from its polled page sent
\* to the queue in that run, and every integration not reached because the
\* limit was hit still has the cursor it had when the run started.
C17_OverflowDeferred ==
    (sched.pc = "idle" /\ sched.cursors # <<>>)
    => /\ \A e \in sched.selected : e[1] \in sched.moved => SentOf(e[1]) = e[2]
       /\ \A k \in SeqToSet(sched.tokens) : tokens[k].last_cursor = sched.cursors[k]

\* C17 witness: a run has returned after the limit was hit, with cursors
\* advanced, more messages sent than the limit and a token not reached.
C17_Witness ==
    /\ sched.pc = "idle"
    /\ Len(sched.upserts) > UPSERT_LIMIT
    /\ sched.sent = Len(sched.upserts)
    /\ sched.moved # {}
    /\ sched.tokens # <<>>

\* The last-polled time of an integration; one never polled is the oldest.
LastPolled(k) == IF tokens[k].time_updated = Null THEN 0 ELSE tokens[k].time_updated

\* C18 (as claimed): in a full Scheduler run the integrations are polled in
\* non-decreasing order of their last-polled time, across all types: when
\* the run starts, no integration stands in the polling order before one
\* that was polled longer ago or has never been polled.
C18_OldestPolledFirst ==
    (sched.pc = "loop" /\ sched.user = "" /\ sched.polled = {})
    => \A i, j \in 1..Len(sched.tokens) :
          i < j => LastPolled(sched.tokens[i]) <= LastPolled(sched.tokens[j])

\* C19 (as claimed): under repeated full Scheduler runs every integration
\* is eventually polled, even when the other integrations reach the limit
\* in every run.
C19_EveryIntegrationEventuallyPolled ==
    <>(\A k \in CapTokenIds : tokens[k].time_updated # Null)

\* C20 (as claimed): once a delete record for a source has been processed,
\* no Ledger row and no vector of it appears again while the Scheduler
\* discovers nothing: an upsert enqueued before the delete and delivered
\* after it re-creates neither.
C20_DeletedStaysDeleted ==
    \A d \in deleted : RowsOf(d[1]) = {} /\ PresentChunks(Team, d[1]) = {}

(***************************************************************************)
(* The contentstore table and the handlers that read it (core, backend).   *)
(***************************************************************************)

\* Bounds of the table's contents.
MaxDay == 1
MaxJoins == 1

\* days of the retention window (the default of the query's parameter)
RETENTION_DAYS == 180

Teams == {"T1", "T2"}
Channels == {"C1", "C2"}
ContentTypes == {"slack_message", "drive#file|application/vnd.google-apps.document",
                 "notion"}
Days == 1..MaxDay

\* The rows a contentstore table can hold: team_id and type are not null,
\* source_last_updated may be NULL.
ContentStoreRows ==
    [source_id : Channels, team_id : Teams, type : ContentTypes,
     source_last_updated : {Null} \cup Days, is_boosted : BOOLEAN]

\* A NULL user_id (the team-wide Slack integration has no user).
NoUser == ""

\* The integration table: team T1 installed every integration, team T2 has
\* a Notion integration only (and so no Slack integration).
Integrations ==
    {[id |-> 1, team_id |-> "T1", type |-> "slack", user_id |-> NoUser],
     [id |-> 2, team_id |-> "T1", type |-> "gdrive", user_id |-> "U1"],
     [id |-> 3, team_id |-> "T1", type |-> "notion", user_id |-> "U1"],
     [id |-> 4, team_id |-> "T1", type |-> "zendesk", user_id |-> "U1"],
     [id |-> 5, team_id |-> "T2", type |-> "notion", user_id |-> "U2"]}

\* installation_store.find_bot: the bot user of a team's installation.
find_bot(team_id) == IF team_id = "T1" THEN "B1" ELSE "B2"

\* The users a member_joined_channel event can name.
JoinUsers == {"B1", "B2", "U1"}
JoinEvents == [user : JoinUsers, team : Teams, channel : Channels]

\* crud.get_content_store: the first row with the source_id, or nothing.
get_content_store(source_id) == {r \in contentStore : r.source_id = source_id}

\* crud.get_user_integration: the first integration of the team, user and type.
get_user_integration(team_id, user_id, type) ==
    {i \in Integrations : i.team_id = team_id /\ i.user_id = user_id /\ i.type = type}

\* The message handle_member_join sends for a channel.
JoinMessage(integration, e) ==
    [integration_id |-> integration.id, team_id |-> e.team, user_id |-> NoUser,
     type |-> "slack_channel", source_id |-> e.channel, initial_index |-> TRUE]

\* The condition under which handle_member_join goes on to enqueue.
ShouldIndexJoinAnyMember(e) == get_content_store(e.channel) = {}
ShouldIndexJoin(e) ==
    find_bot(e.team) = e.user /\ get_content_store(e.channel) = {}

\* handle_member_join: when the bot joined a channel that has no row, an
\* initial-index message is sent; integration.id raises when the team has no
\* Slack integration, and then nothing is sent.
handle_member_join(e) ==
    /\ Len(queue) < MaxJoins
    /\ LET found == get_user_integration(e.team, NoUser, "slack")
           sends == ShouldIndexJoin(e) /\ found # {}
       IN /\ queue' = IF sends
                      THEN Append(queue, JoinMessage(CHOOSE i \in found : TRUE, e))
                      ELSE queue
          /\ call' = [fn |-> "handle_member_join", event |-> e,
                      raised |-> ShouldIndexJoin(e) /\ found = {}]
    /\ UNCHANGED contentStore

\* crud.create_content_store: source_id is unique, so a second row with the
\* same source_id is refused (the commit raises and the table is as before).
create_content_store(row) ==
    /\ get_content_store(row.source_id) = {}
    /\ call' = [fn |-> "create_content_store", source_id |-> row.source_id]
    /\ contentStore' = contentStore \cup {row}
    /\ UNCHANGED queue

\* crud.update_content_store with fields {is_boosted: b}.
update_content_store(source_id, b) ==
    /\ get_content_store(source_id) # {}
    /\ call' = [fn |-> "update_content_store", source_id |-> source_id]
    /\ contentStore' = {IF r.source_id = source_id THEN [r EXCEPT !.is_boosted = b] ELSE r
                        : r \in contentStore}
    /\ UNCHANGED queue

\* crud.delete_content_stores.
delete_content_stores(source_ids) ==
    /\ \E r \in contentStore : r.source_id \in source_ids
    /\ call' = [fn |-> "delete_content_stores", source_ids |-> source_ids]
    /\ contentStore' = {r \in contentStore : r.source_id \notin source_ids}
    /\ UNCHANGED queue

\* The content type the retention query maps an integration type to.
content_store_type(type) ==
    CASE type = "slack" -> "slack_message"
      [] type = "gdrive" -> "drive#file|application/vnd.google-apps.document"
      [] type = "notion" -> "notion"
      [] OTHER -> ""

\* crud.get_older_content_stores_from_integration on day today: a NULL
\* source_last_updated compares as unknown, so such a row is not selected.
OlderContentStoresBoostedToo(integration, today, days) ==
    IF content_store_type(integration.type) = "" THEN {}
    ELSE {r \in contentStore :
            /\ r.team_id = integration.team_id
            /\ r.type = content_store_type(integration.type)
            /\ r.source_last_updated # Null
            /\ r.source_last_updated < today - days}
get_older_content_stores_from_integration(integration, today, days) ==
    IF content_store_type(integration.type) = "" THEN {}
    ELSE {r \in contentStore :
            /\ r.team_id = integration.team_id
            /\ r.type = content_store_type(integration.type)
            /\ r.source_last_updated # Null
            /\ r.source_last_updated < today - days
            /\ r.is_boosted = FALSE}

\* The retention query is run for an integration on some day.
RetentionQuery(integration, today) ==
    /\ call' = [fn |-> "get_older_content_stores_from_integration",
                integration |-> integration, today |-> today,
                result |-> get_older_content_stores_from_integration(
                               integration, today, RETENTION_DAYS)]
    /\ UNCHANGED <<contentStore, queue>>

NextCore ==
    \/ \E e \in JoinEvents : handle_member_join(e)
    \/ \E row \in ContentStoreRows : create_content_store(row)
    \/ \E c \in Channels, b \in BOOLEAN : update_content_store(c, b)
    \/ \E ids \in SUBSET Channels : delete_content_stores(ids)
    \/ \E i \in Integrations, d \in 1..(MaxDay + 1) : RetentionQuery(i, RETENTION_DAYS + d)

CoreStep ==
    NextCore /\ UNCHANGED <<docs, clock, indexerVars, batchVars, chat, tokens, source, sched, schedRuns>>

SpecCore == Init /\ [][CoreStep]_vars

\* C21: a join event enqueues an initial-index message for its channel only
\* when the member that joined is the bot and no row with the channel's
\* source_id exists when the event is handled; every other join event leaves
\* the queue as it was.
C21_InitialIndexOnlyForBotInNewChannel ==
    [][call'.fn = "handle_member_join" =>
         LET e == call'.event
             noRow == \A r \in contentStore : r.source_id # e.channel
             isBot == e.user = find_bot(e.team)
         IN /\ queue' # queue =>
                 /\ noRow /\ isBot
                 /\ queue' = Append(queue, queue'[Len(queue')])
                 /\ queue'[Len(queue')].initial_index
                 /\ queue'[Len(queue')].source_id = e.channel
            /\ ~(noRow /\ isBot) => queue' = queue]_vars

\* A join of the bot was handled while rows existed and a message was sent;
\* another member's join or a join into a channel with a row sent nothing.
C21_Witness ==
    /\ call.fn = "handle_member_join"
    /\ call.event.user = find_bot(call.event.team)
    /\ contentStore # {}
    /\ \A r \in contentStore : r.source_id # call.event.channel
    /\ queue # <<>>
    /\ queue[Len(queue)].source_id = call.event.channel

\* C22: the retention query selects only rows of the integration's team and
\* mapped content type that are older than the retention window and not
\* boosted.
C22_RetentionSelectsOnlyOldUnboosted ==
    call.fn = "get_older_content_stores_from_integration" =>
        \A r \in call.result :
            /\ r \in contentStore
            /\ r.team_id = call.integration.team_id
            /\ r.type = content_store_type(call.integration.type)
            /\ r.source_last_updated # Null
            /\ r.source_last_updated + RETENTION_DAYS < call.today
            /\ ~r.is_boosted

\* The query selected a row while a boosted row of the same team and type,
\* equally old, was in the table.
C22_Witness ==
    /\ call.fn = "get_older_content_stores_from_integration"
    /\ call.result # {}
    /\ \E r \in contentStore \ call.result :
          /\ r.is_boosted
          /\ r.team_id = call.integration.team_id
          /\ r.type = content_store_type(call.integration.type)
          /\ r.source_last_updated # Null
          /\ r.source_last_updated + RETENTION_DAYS < call.today

(***************************************************************************)
(* The Scheduler's functions, called on their own (SpecCalls): the request *)
(* each listing function issues, the tokens get_tokens returns and the     *)
(* batches chunks yields.                                                   *)
(***************************************************************************)

\* Bounds of the inputs of chunks.
MaxChunkInput == 5
MaxChunkBatch == 3

CallTokenIds == {"t1", "t2", "t3"}

\* Any contents of the notiontoken and googletoken tables: several tokens
\* may belong to one user and team; the second token has a stored cursor.
TokenTables ==
    {t \in [CallTokenIds -> [type : {"NotionToken", "GoogleToken"}, user_id : Users,
                             team : Teams, last_cursor : {Null, 1},
                             time_updated : {Null}]] :
        \A k \in CallTokenIds : t[k].last_cursor # Null <=> k = "t2"}

InitCalls ==
    /\ InitIndexer
    /\ tokens \in TokenTables
    /\ source = [f \in Files |-> [last_edited_time |-> 1, archived |-> FALSE]]
    /\ sched = SchedIdle
    /\ queue = <<>>
    /\ schedRuns = 0

\* The body get_notion_search_results posts.
NotionSort == [direction |-> "descending", timestamp |-> "last_edited_time"]
NotionFilter == [property |-> "object", value |-> "page"]
NotionRequestBodyAlwaysCursor(start_cursor) ==
    [sort |-> NotionSort, filter |-> NotionFilter, start_cursor |-> start_cursor]
NotionRequestBody(start_cursor) ==
    IF start_cursor # Null
    THEN [sort |-> NotionSort, filter |-> NotionFilter, start_cursor |-> start_cursor]
    ELSE [sort |-> NotionSort, filter |-> NotionFilter]

\* get_notion_search_results(token): one POST to the search endpoint.
NotionSearch(k) ==
    /\ tokens[k].type = "NotionToken"
    /\ call' = [fn |-> "get_notion_search_results", token |-> k,
                requests |-> << [url |-> "https://api.notion.com/v1/search",
                                 body |-> NotionRequestBody(tokens[k].last_cursor)] >>]

\* The keyword arguments get_google_search_results passes to files().list.
GoogleFields == "nextPageToken, files(id, name, modifiedTime, mimeType)"
GoogleListParams(start_cursor) ==
    IF start_cursor # Null
    THEN [supportsAllDrives |-> TRUE, includeItemsFromAllDrives |-> TRUE,
          pageToken |-> start_cursor, fields |-> GoogleFields,
          orderBy |-> "modifiedTime desc", q |-> "trashed=false"]
    ELSE [supportsAllDrives |-> TRUE, includeItemsFromAllDrives |-> TRUE,
          fields |-> GoogleFields,
          orderBy |-> "modifiedTime desc", q |-> "trashed=false"]

\* get_google_search_results(token): one files().list call.
GoogleSearch(k) ==
    /\ tokens[k].type = "GoogleToken"
    /\ call' = [fn |-> "get_google_search_results", token |-> k,
                requests |-> << [params |-> GoogleListParams(tokens[k].last_cursor)] >>]

\* The crud lookups get_tokens makes.
TokenLookups(user, team) ==
    IF user # "" /\ team # ""
    THEN <<"get_notion_token", "get_google_token">>
    ELSE <<"get_notion_tokens", "get_google_tokens">>

\* get_tokens(db, user, team) is called.
GetTokens(user, team) ==
    \E found \in get_tokens(user, team) :
        call' = [fn |-> "get_tokens", user |-> user, team |-> team,
                 lookups |-> TokenLookups(user, team), result |-> found]

\* The inputs chunks is called on: short inputs with small batches, and
\* inputs around the batch sizes the handlers pass.
ChunkInputs ==
    {<<n, b>> : n \in 0..MaxChunkInput, b \in 1..MaxChunkBatch}
        \cup {<<SEND_BATCH, SEND_BATCH>>, <<SEND_BATCH + 1, SEND_BATCH>>,
              <<2 * SEND_BATCH + MaxChunkBatch, SEND_BATCH>>,
              <<INDEX_BATCH, INDEX_BATCH>>, <<INDEX_BATCH + 1, INDEX_BATCH>>}

\* chunks(iterable, batch_size) is called and its generator exhausted.
Chunks(n, batch_size) ==
    call' = [fn |-> "chunks", input |-> Range(0, n), batch_size |-> batch_size,
             result |-> chunks(Range(0, n), batch_size)]

\* ------------------------------------------------------------ the Reader

\* dict.get(key): the value, or None when the key is missing.
DictGet(d, key) == IF key \in DOMAIN d THEN d[key] ELSE Null

\* The pages a Notion search response lists and the responses themselves:
\* with or without next_cursor, and the error payload that has no results.
NotionPages ==
    {<<[id |-> "F1", archived |-> a1, last_edited_time |-> t1],
       [id |-> "F2", archived |-> a2, last_edited_time |-> t2]>> :
        a1 \in BOOLEAN, a2 \in BOOLEAN, t1 \in Times, t2 \in Times}
NotionResponses ==
    {[results |-> p, next_cursor |-> 2] : p \in NotionPages}
        \cup {[results |-> p] : p \in NotionPages}
        \cup {[object |-> "error"]}

\* The responses of Drive files().list: with or without nextPageToken.
DriveFiles == <<[id |-> "F3", name |-> FileName, modifiedTime |-> 1,
                 mimeType |-> "application/vnd.google-apps.document"]>>
DriveResponses ==
    {[files |-> DriveFiles, nextPageToken |-> 2], [files |-> DriveFiles]}

\* _get_notion_pages, given the response to its search request.
NotionPagesArchivedToo(integration, notion_pages) ==
    LET results == IF "results" \in DOMAIN notion_pages THEN notion_pages.results ELSE <<>>
    IN [cursor |-> DictGet(notion_pages, "next_cursor"),
        content_stores |->
            [i \in 1..Len(results) |->
                [team_id |-> integration.team_id, user_id |-> integration.user_id,
                 type |-> "notion", source_id |-> results[i].id,
                 source_last_updated |-> results[i].last_edited_time]]]
get_notion_pages(integration, notion_pages) ==
    LET results == IF "results" \in DOMAIN notion_pages THEN notion_pages.results ELSE <<>>
        NotArchived(page) == ~page.archived
        kept == SelectSeq(results, NotArchived)
    IN [cursor |-> DictGet(notion_pages, "next_cursor"),
        content_stores |->
            [i \in 1..Len(kept) |->
                [team_id |-> integration.team_id, user_id |-> integration.user_id,
                 type |-> "notion", source_id |-> kept[i].id,
                 source_last_updated |-> kept[i].last_edited_time]]]

\* _get_gdrive_docs, given the response to its list request: the cursor is
\* read from the key next_cursor.
get_gdrive_docs(integration, files) ==
    LET listed == IF "files" \in DOMAIN files THEN files.files ELSE <<>>
    IN [cursor |-> DictGet(files, "next_cursor"),
        content_stores |->
            [i \in 1..Len(listed) |->
                [team_id |-> integration.team_id, user_id |-> integration.user_id,
                 type |-> "drive#file|" \o listed[i].mimeType,
                 source_id |-> listed[i].id,
                 source_last_updated |-> listed[i].modifiedTime]]]

\* list_content_stores for a Notion or Drive integration and the response
\* the external system gives it.
ResponsesFor(integration) ==
    IF integration.type = "notion" THEN NotionResponses
    ELSE IF integration.type = "gdrive" THEN DriveResponses
    ELSE {}
list_content_stores(integration, response) ==
    IF integration.type = "notion" THEN get_notion_pages(integration, response)
    ELSE IF integration.type = "gdrive" THEN get_gdrive_docs(integration, response)
    ELSE <<>>

ListContentStores(integration, response) ==
    call' = [fn |-> "list_content_stores", integration |-> integration,
             response |-> response,
             result |-> list_content_stores(integration, response)]

\* The descriptors extract_data_from_content_store is called on; a source_id
\* may itself end in a number.
SupportedDocTypes ==
    {"notion", "drive#file|application/pdf", GoogleDoc, "drive#file|text/plain",
     "slack|application/vnd.openxmlformats-officedocument.wordprocessingml.document",
     "slack|application/pdf", "slack|text/plain"}
DescriptorTypes == SupportedDocTypes \cup {Spreadsheet, "zendesk"}
Descriptors ==
    [team_id : {Team}, user_id : {"U1"}, type : DescriptorTypes,
     source_id : {"S1", "S1-0"}, name : {FileName}, source_last_updated : {1}]

\* What the reader of the type gives: None, the empty string, or a text,
\* kept as the chunks re.split(REGEX_EXP, text) cuts it into.
NoneText == [none |-> TRUE, chunks |-> <<>>]
ReaderTexts == {NoneText} \cup {[none |-> FALSE, chunks |-> t] : t \in Texts}

\* not text
NotText(text) == text.none \/ text.chunks = <<>>

\* f"{team_id}-{content_store['source_id']}-{idx}" and the title's id.
ContentId(team_id, source_id, idx) == team_id \o "-" \o source_id \o "-" \o ToString(idx)
TitleId(team_id, source_id) == team_id \o "-" \o source_id

\* extract_data_from_content_store for a document type, given the text its
\* reader returned.
ExtractDataTitleAsChunk(content_store, text) ==
    IF content_store.type \notin SupportedDocTypes THEN <<>>
    ELSE IF NotText(text) THEN <<>>
    ELSE [idx \in 1..Len(text.chunks) |->
            [id |-> ContentId(content_store.team_id, content_store.source_id, idx - 1),
             text |-> text.chunks[idx], text_type |-> "content"]]
         \o <<[id |-> ContentId(content_store.team_id, content_store.source_id, 0),
               text |-> content_store.name, text_type |-> "title"]>>
extract_data_from_content_store(content_store, text) ==
    IF content_store.type \notin SupportedDocTypes THEN <<>>
    ELSE IF NotText(text) THEN <<>>
    ELSE [idx \in 1..Len(text.chunks) |->
            [id |-> ContentId(content_store.team_id, content_store.source_id, idx - 1),
             text |-> text.chunks[idx], text_type |-> "content"]]
         \o <<[id |-> TitleId(content_store.team_id, content_store.source_id),
               text |-> content_store.name, text_type |-> "title"]>>

ExtractData(content_store, text) ==
    call' = [fn |-> "extract_data_from_content_store", content_store |-> content_store,
             text |-> text,
             result |-> extract_data_from_content_store(content_store, text)]

NextCalls ==
    \/ \E k \in CallTokenIds : NotionSearch(k)
    \/ \E k \in CallTokenIds : GoogleSearch(k)
    \/ \E user \in Users \cup {""}, team \in Teams \cup {""} : GetTokens(user, team)
    \/ \E c \in ChunkInputs : Chunks(c[1], c[2])

CallStep ==
    NextCalls /\ UNCHANGED <<docs, clock, indexerVars, batchVars, chat, schedulerVars, contentStore>>

SpecCalls == InitCalls /\ [][CallStep]_vars

\* The Reader's functions, called on their own.
NextReader ==
    \/ \E i \in Integrations : \E response \in ResponsesFor(i) : ListContentStores(i, response)
    \/ \E d \in Descriptors, text \in ReaderTexts : ExtractData(d, text)

ReaderStep ==
    NextReader /\ UNCHANGED <<docs, clock, indexerVars, batchVars, chat, schedulerVars, contentStore>>

SpecReader == Init /\ [][ReaderStep]_vars

\* C23: get_notion_search_results issues exactly one request; its body has
\* start_cursor, equal to the stored cursor, exactly when the cursor is not
\* empty, and the same sort and filter either way.
C23_NotionRequest ==
    call.fn = "get_notion_search_results" =>
        /\ Len(call.requests) = 1
        /\ LET body == call.requests[1].body
               cursor == tokens[call.token].last_cursor
           IN /\ cursor # Null => /\ "start_cursor" \in DOMAIN body
                                  /\ body.start_cursor = cursor
              /\ cursor = Null => "start_cursor" \notin DOMAIN body
              /\ body.sort = NotionSort
              /\ body.filter = NotionFilter
              /\ DOMAIN body \subseteq {"sort", "filter", "start_cursor"}

\* The search was requested for a token that has no stored cursor.
C23_Witness ==
    /\ call.fn = "get_notion_search_results"
    /\ tokens[call.token].last_cursor = Null
    /\ \E k \in CallTokenIds :
          tokens[k].type = "NotionToken" /\ tokens[k].last_cursor # Null

\* C24 (as claimed): get_google_search_results issues exactly one list call
\* whose parameters are exactly supportsAllDrives, includeItemsFromAllDrives,
\* fields and orderBy, plus pageToken exactly when the stored cursor is not
\* empty, and no other parameter.
C24_GoogleListParameters ==
    call.fn = "get_google_search_results" =>
        /\ Len(call.requests) = 1
        /\ LET params == call.requests[1].params
               cursor == tokens[call.token].last_cursor
           IN /\ DOMAIN params =
                    {"supportsAllDrives", "includeItemsFromAllDrives", "fields", "orderBy"}
                        \cup (IF cursor # Null THEN {"pageToken"} ELSE {})
              /\ params.supportsAllDrives /\ params.includeItemsFromAllDrives
              /\ params.fields = GoogleFields
              /\ params.orderBy = "modifiedTime desc"
              /\ cursor # Null => params.pageToken = cursor

\* C25: with user and team given, get_tokens makes one lookup per type and
\* returns what the lookups found, the Notion token before the Google token,
\* all of that user and team; otherwise it returns every Notion token and
\* then every Google token.
C25_GetTokens ==
    call.fn = "get_tokens" =>
        LET result == call.result
            typeOf(i) == tokens[result[i]].type
            matching(t) == {k \in CallTokenIds : /\ tokens[k].type = t
                                                 /\ tokens[k].user_id = call.user
                                                 /\ tokens[k].team = call.team}
            returned(t) == {result[i] : i \in {j \in 1..Len(result) : typeOf(j) = t}}
            notionFirst == \A i, j \in 1..Len(result) :
                              i < j => ~(typeOf(i) = "GoogleToken" /\ typeOf(j) = "NotionToken")
        IN IF call.user # "" /\ call.team # ""
           THEN /\ call.lookups = <<"get_notion_token", "get_google_token">>
                /\ \A t \in {"NotionToken", "GoogleToken"} :
                      /\ returned(t) \subseteq matching(t)
                      /\ Cardinality(returned(t)) = IF matching(t) = {} THEN 0 ELSE 1
                /\ Len(result) = Cardinality(SeqToSet(result))
                /\ notionFirst
           ELSE /\ SeqToSet(result) = CallTokenIds
                /\ Len(result) = Cardinality(CallTokenIds)
                /\ notionFirst

\* A lookup for a user and team returned a token while another token of the
\* same user, of another team, was in the tables.
C25_Witness ==
    /\ call.fn = "get_tokens"
    /\ call.user # "" /\ call.team # ""
    /\ call.result # <<>>
    /\ \E k \in CallTokenIds :
          tokens[k].user_id = call.user /\ tokens[k].team # call.team

RECURSIVE Flatten(_)
Flatten(ss) == IF ss = <<>> THEN <<>> ELSE Head(ss) \o Flatten(Tail(ss))

\* C26: chunks partitions its input: the batches concatenated are the
\* input, no batch is empty, none is longer than batch_size, all but the
\* last have batch_size elements, and an empty input yields no batch; so a
\* vector call carries at most 100 ids and a queue send at most 10 entries.
C26_ChunksPartition ==
    call.fn = "chunks" =>
        /\ Flatten(call.result) = call.input
        /\ \A j \in 1..Len(call.result) :
              /\ Len(call.result[j]) >= 1
              /\ Len(call.result[j]) <= call.batch_size
              /\ j < Len(call.result) => Len(call.result[j]) = call.batch_size
        /\ call.input = <<>> => call.result = <<>>
        /\ call.batch_size = INDEX_BATCH =>
              \A j \in 1..Len(call.result) : Len(call.result[j]) <= 100
        /\ call.batch_size = SEND_BATCH =>
              \A j \in 1..Len(call.result) : Len(call.result[j]) <= 10

\* An input longer than the batch size of queue sends was split into full
\* batches and a shorter last one.
C26_Witness ==
    /\ call.fn = "chunks"
    /\ call.batch_size = SEND_BATCH
    /\ Len(call.result) > 2
    /\ Len(call.result[Len(call.result)]) < SEND_BATCH

\* The page token k listed in the current run, and whether the run selected
\* file f from it.
PolledPage(k) ==
    ListingPages(k)[IF sched.cursors[k] = Null THEN 1 ELSE sched.cursors[k]]
SelectedFrom(k, f) ==
    \E i \in 1..Len(sched.upserts) :
        sched.upserts[i].token = k /\ sched.upserts[i].MessageBody.file_id = f

FailedListings ==
    sched.errored \cup (IF sched.raised = "" THEN {} ELSE {sched.raised})

\* C29 (as claimed): when the listing request of an integration fails, by
\* raising or by an error payload, the integration's stored cursor is the one
\* it had when the run started.
C29_FailedListingKeepsCursor ==
    \A k \in FailedListings : tokens[k].last_cursor = sched.cursors[k]

(***************************************************************************)
(* Scheduler and Indexer together over one source that is edited           *)
(* (SpecSync): the Scheduler's messages are delivered to the Indexer, one  *)
(* after the other, while the source is edited in the external system.     *)
(***************************************************************************)

\* The database clock does not pass MaxClock: each edit takes one tick.
MaxClock == 3

\* One Notion integration of user U1 that lists the followed source.
SyncToken == "tokS"

InitSync ==
    /\ InitIndexer
    /\ tokens = [k \in {SyncToken} |->
            [type |-> "NotionToken", user_id |-> "U1", team |-> Team,
             last_cursor |-> Null, time_updated |-> Null]]
    /\ source = [f \in {FileId} |-> [last_edited_time |-> 1, archived |-> FALSE]]
    /\ sched = SchedIdle
    /\ queue = <<>>
    /\ schedRuns = 0

\* The source is edited in the external system, which stamps the edit with
\* the time it is made at; time then passes.
EditSource(t) ==
    /\ clock < MaxClock
    /\ content # t
    /\ content' = t
    /\ source' = [source EXCEPT ![FileId].last_edited_time = clock]
    /\ clock' = clock + 1
    /\ UNCHANGED <<docs, index, pc, local, period, lastRun, runs, fails,
                   tokens, sched, queue, schedRuns, batchVars, coreVars, chat>>

\* The event source hands the oldest message of the queue to the Indexer,
\* whose handler starts on it and extracts the text.
Deliver ==
    /\ queue # <<>>
    /\ Start(1, Head(queue).MessageBody)
    /\ queue' = Tail(queue)
    /\ UNCHANGED <<period, lastRun, runs, fails, tokens, source, sched, schedRuns,
                   batchVars, coreVars, chat>>

NextSync ==
    \/ \E t \in RaceTexts : EditSource(t)
    \/ Deliver
    \/ Query(1) /\ UNCHANGED <<period, lastRun, runs, fails, schedulerVars, batchVars, coreVars, chat>>
    \/ WriteLedger(1) /\ UNCHANGED <<period, lastRun, runs, fails, schedulerVars, batchVars, coreVars, chat>>
    \/ UpsertBatch(1) /\ UNCHANGED <<period, lastRun, runs, fails, schedulerVars, batchVars, coreVars, chat>>
    \/ DeleteBatch(1) /\ UNCHANGED <<period, lastRun, runs, fails, schedulerVars, batchVars, coreVars, chat>>
    \/ Finish(1) /\ UNCHANGED <<period, lastRun, runs, fails, schedulerVars, batchVars, coreVars, chat>>
    \/ /\ schedRuns < MaxSchedRuns
       /\ SchedStart("", "") /\ schedRuns' = schedRuns + 1
    \/ SchedPoll
    \/ SchedEndLoop
    \/ SchedSend
    \/ SchedReturn

SpecSync == InitSync /\ [][NextSync]_vars

\* The index holds exactly the vectors of the source's current text.
IndexReflectsContent ==
    LET sentences == Sentences("notion", FileName, content)
    IN /\ PresentChunks(Team, FileId) = 0..(Len(sentences) - 1)
       /\ \A i \in 0..(Len(sentences) - 1) :
             /\ VectorId(Team, FileId, i) \in DOMAIN index
             /\ index[VectorId(Team, FileId, i)].text
                    = extract_snippet(sentences, "notion", i)

\* Nothing is in flight: the Scheduler is not running, no message waits and
\* the Indexer is idle.
Quiescent == sched.pc = "idle" /\ queue = <<>> /\ pc[1] = "idle"

\* C28 (as claimed): no edit is permanently missed: when nothing is in
\* flight and the index does not reflect the source's text, the next poll
\* that lists the source selects it (its Ledger row does not make the poll
\* skip it).
C28_NoEditPermanentlyMissed ==
    (Quiescent /\ ~IndexReflectsContent)
    => \A r \in RowsOf(FileId) :
          ~SkipDocument(r, source[FileId].last_edited_time, tokens[SyncToken].user_id)

\* The current run polled page p of token k's listing.
PagePolled(k, p) == k \in sched.polled /\ PolledPage(k) = ListingPages(k)[p]

\* The response to the current run's poll of token k carried no next-page
\* token: the page polled is the last of the listing.
PolledLastPage(k) ==
    k \in sched.polled /\ PolledPage(k) = ListingPages(k)[Len(ListingPages(k))]

\* C30 (as claimed): when a listing response carries no next-page token the
\* stored cursor is cleared and the next poll of the integration lists the
\* first page; and under repeated Scheduler runs every page of every
\* integration is polled infinitely often.
C30_EveryPagePolledInfinitelyOften ==
    /\ [](\A k \in DOMAIN tokens :
            PolledLastPage(k) => /\ tokens[k].last_cursor = Null
                                 /\ SearchResults(k).results = ListingPages(k)[1])
    /\ \A k \in CapTokenIds :
          \A p \in 1..Len(ListingPages(k)) : []<>PagePolled(k, p)

\* C31: for a descriptor of a supported document type whose text is not
\* empty and splits into n chunks, extract_data_from_content_store returns
\* the n content records in text order, with ids team-source-0 to
\* team-source-(n-1), and then one title record with id team-source, all
\* ids distinct; for an unsupported type or no text it returns nothing.
C31_ExtractRecords ==
    call.fn = "extract_data_from_content_store" =>
        LET cs == call.content_store
            text == call.text.chunks
            result == call.result
            n == Len(text)
        IN IF cs.type \in SupportedDocTypes /\ ~call.text.none /\ text # <<>>
           THEN /\ Len(result) = n + 1
                /\ \A i \in 1..n :
                      /\ result[i].id = cs.team_id \o "-" \o cs.source_id
                                            \o "-" \o ToString(i - 1)
                      /\ result[i].text = text[i]
                      /\ result[i].text_type = "content"
                /\ result[n + 1].id = cs.team_id \o "-" \o cs.source_id
                /\ result[n + 1].text_type = "title"
                /\ \A i, j \in 1..(n + 1) : result[i].id = result[j].id => i = j
           ELSE result = <<>>

\* A text of two chunks was extracted for a source whose id ends in a number.
C31_Witness ==
    /\ call.fn = "extract_data_from_content_store"
    /\ call.content_store.source_id = "S1-0"
    /\ Len(call.result) = 3

\* C32 (as claimed): for a gdrive integration list_content_stores returns as
\* cursor the next-page token of the Drive response, and no cursor only when
\* the response has none.
C32_GdriveCursorIsNextPageToken ==
    (call.fn = "list_content_stores" /\ call.integration.type = "gdrive")
    => call.result.cursor = DictGet(call.response, "nextPageToken")

\* ------------------------------------------- Archived Notion pages
\* The Scheduler and the Reader over a Notion workspace whose page F2 may be
\* archived, with any Ledger row and any last-edited time for it. The two
\* programs share no state of their own, so the Reader's listing calls are
\* taken between Scheduler invocations only.
InitArchived ==
    /\ \E row \in RowChoices :
          LET choice == [f \in Files |-> IF f = "F2" THEN row ELSE NoRow]
          IN /\ docs = RowsFrom(<<"F1", "F2", "F3">>, choice)
             /\ index = [id \in {VectorId(Team, f, 0) : f \in {g \in Files : choice[g].present}}
                           |-> [title |-> FileName, team |-> Team,
                                text |-> <<FileName>>, type |-> "notion"]]
    /\ source \in [Files -> [last_edited_time : Times, archived : BOOLEAN]]
    /\ \A f \in Files \ {"F2"} : ~source[f].archived /\ source[f].last_edited_time = 1
    /\ tokens = InitialTokens
    /\ sched = SchedIdle
    /\ queue = <<>>
    /\ schedRuns = 0
    /\ content = <<>>
    /\ clock = MaxTime
    /\ pc = [w \in Workers |-> "idle"]
    /\ local = [w \in Workers |-> IdleLocal]
    /\ period = NoPeriod
    /\ lastRun = NoRun
    /\ runs = 0
    /\ fails = 0
    /\ inv = BatchIdle
    /\ deleted = {}
    /\ snap = NoSnap
    /\ queries = {}
    /\ slack = SlackIdle
    /\ contentStore = {}
    /\ call = NoCall
    /\ chat = ChatIdle

\* What Notion answers a search with while the workspace is as source says.
NotionResponsesNow ==
    LET Page(f) == [id |-> f, archived |-> source[f].archived,
                    last_edited_time |-> source[f].last_edited_time]
        pages == <<Page("F1"), Page("F2")>>
    IN {[results |-> pages, next_cursor |-> 2], [results |-> pages],
        [object |-> "error"]}

ListNotionPages ==
    /\ sched.pc = "idle"
    /\ \E i \in {j \in Integrations : j.type = "notion"} :
          \E response \in NotionResponsesNow : ListContentStores(i, response)
    /\ UNCHANGED <<docs, clock, indexerVars, batchVars, chat, schedulerVars, contentStore>>

NextArchived ==
    \/ NextScheduler
    \/ ListNotionPages

SpecArchived == InitArchived /\ [][NextArchived]_vars

\* The ids of the archived pages of a Notion search response.
ArchivedIn(response) ==
    IF "results" \in DOMAIN response
    THEN {response.results[i].id :
            i \in {j \in 1..Len(response.results) : response.results[j].archived}}
    ELSE {}

\* C38: an archived Notion page is never selected or enqueued by the
\* Scheduler and never appears among the descriptors the Reader returns,
\* whatever its last-edited time and whether or not it has a Ledger row.
C38_ArchivedPageNeverListed ==
    /\ \A f \in Files :
          source[f].archived =>
             /\ \A i \in 1..Len(queue) :
                   ~(queue[i].MessageBody.file_id = f
                        /\ queue[i].MessageBody.filetype = "notion")
             /\ \A i \in 1..Len(sched.upserts) :
                   ~(sched.upserts[i].MessageBody.file_id = f
                        /\ sched.upserts[i].MessageBody.filetype = "notion")
    /\ (call.fn = "list_content_stores" /\ call.integration.type = "notion") =>
          \A i \in 1..Len(call.result.content_stores) :
              call.result.content_stores[i].source_id \notin ArchivedIn(call.response)

\* The Notion integration was polled while F2 was archived with a Ledger row
\* older than its last edit, the page listed with it was enqueued, and the
\* Reader listed a response holding an archived page and a live one.
C38_Witness ==
    /\ source["F2"].archived
    /\ source["F2"].last_edited_time = MaxTime
    /\ RowsOf("F2") # {}
    /\ \E i \in 1..Len(queue) : queue[i].MessageBody.file_id = "F1"
    /\ call.fn = "list_content_stores"
    /\ ArchivedIn(call.response) # {}
    /\ Len(call.result.content_stores) = 1

\* The cursor fields of an integration row.
CursorFields == {"last_cursor", "time_updated"}

\* C37: no step of a Scheduler invocation creates, updates or deletes a
\* Ledger row or touches the vector index; of what outlives the invocation
\* it changes only the stored cursor of the integration it is polling and
\* the queue, to which it only appends.
C37_SchedulerWritesCursorsAndQueueOnly ==
    [][/\ docs' = docs
       /\ index' = index
       /\ \A k \in DOMAIN tokens :
             tokens'[k] # tokens[k] =>
                /\ sched.pc = "loop" /\ Len(sched.tokens) > 0 /\ k = Head(sched.tokens)
                /\ \A fld \in DOMAIN tokens[k] \ CursorFields :
                      tokens'[k][fld] = tokens[k][fld]
       /\ DOMAIN tokens' = DOMAIN tokens
       /\ Len(queue') >= Len(queue)
       /\ SubSeq(queue', 1, Len(queue)) = queue]_vars

\* An invocation over a Ledger with rows has returned after it stored a new
\* cursor and sent messages.
C37_Witness ==
    /\ sched.pc = "idle"
    /\ schedRuns > 0
    /\ Len(docs) > 0
    /\ Len(queue) > 0
    /\ \E k \in DOMAIN tokens : tokens[k].last_cursor # InitialTokens[k].last_cursor

\* ------------------------------------- Indexer: a delete among two workers
\* Two workers process upsert messages for the followed source while a
\* third invocation handles delete messages, at most MaxBatch of them; the
\* delete branch (lookup, update, commit) is one step.
DeleteNow(m) ==
    /\ \E d \in (IF RowsOf(m.file_id) = {} THEN {Null} ELSE RowsOf(m.file_id)) :
          IF d # Null /\ m.user \in docs[d].users
          THEN docs' = [r \in 1..Len(docs) |->
                          IF docs[r].file_id = docs[d].file_id
                          THEN [docs[r] EXCEPT
                                  !.users = UsersAfterDelete(docs[d].users, m.user),
                                  !.time_updated = clock]
                          ELSE docs[r]]
          ELSE docs' = docs
    /\ inv.taken < MaxBatch
    /\ inv' = [inv EXCEPT !.taken = @ + 1]
    /\ snap' = Snapshot("delete", m)
    /\ deleted' = deleted \cup {<<m.file_id, m.user>>}
    /\ UNCHANGED <<queries, slack>>
    /\ UNCHANGED <<index, content, clock, pc, local>>

NextDeleteRace ==
    \/ \E w \in Workers, p \in RacePayloads :
          /\ runs < MaxRuns
          /\ Start(w, p) /\ PeriodOnStart
          /\ runs' = runs + 1 /\ UNCHANGED <<lastRun, fails, schedulerVars, batchVars, coreVars, chat>>
    \/ \E w \in Workers : Query(w) /\ UNCHANGED <<period, lastRun, runs, fails, schedulerVars, batchVars, coreVars, chat>>
    \/ \E w \in Workers : WriteLedger(w) /\ UNCHANGED <<period, lastRun, runs, fails, schedulerVars, batchVars, coreVars, chat>>
    \/ \E w \in Workers : UpsertBatch(w) /\ UNCHANGED <<period, lastRun, runs, fails, schedulerVars, batchVars, coreVars, chat>>
    \/ \E w \in Workers : DeleteBatch(w) /\ UNCHANGED <<period, lastRun, runs, fails, schedulerVars, batchVars, coreVars, chat>>
    \/ \E w \in Workers : Finish(w) /\ UNCHANGED <<period, lastRun, runs, fails, schedulerVars, batchVars, coreVars, chat>>
    \/ \E t \in RaceTexts : (AllIdle /\ Edit(t)) /\ UNCHANGED <<period, lastRun, runs, fails, schedulerVars, batchVars, coreVars, chat>>
    \/ \E m \in DeleteMessages : DeleteNow(m) /\ UNCHANGED <<period, lastRun, runs, fails, schedulerVars, coreVars, chat>>

SpecDeleteRace == Init /\ [][NextDeleteRace]_vars

\* C36 (as claimed): a delete message for (file_id, user) changes at most
\* the access list of a row with that file_id, and only by removing user
\* from it; num_vectors, the rows of other files and the index are as before,
\* and when no row of the file lists the user nothing changes at all.
C36_DeleteOnlyRemovesUser ==
    [][inv'.taken = inv.taken + 1 =>
          LET m == snap'.msg
          IN /\ index' = index
             /\ Len(docs') = Len(docs)
             /\ \A r \in 1..Len(docs) :
                   /\ docs'[r].file_id = docs[r].file_id
                   /\ docs'[r].num_vectors = docs[r].num_vectors
                   /\ docs'[r].users = IF docs[r].file_id = m.file_id
                                       THEN docs[r].users \ {m.user}
                                       ELSE docs[r].users
             /\ (\A r \in RowsOf(m.file_id) : m.user \notin docs[r].users) => docs' = docs]_vars

\* -------------------------- Indexer: a batch with unsupported records
\* One worker receiving batches of upsert records, of supported and of
\* unsupported type, none of which fails.
NextSkip ==
    \/ \E n \in 1..MaxBatch : Invoke(n) /\ UNCHANGED <<period, lastRun, runs, fails, schedulerVars, coreVars, chat>>
    \/ \E p \in RacePayloads : UpsertRecord(p) /\ UNCHANGED <<period, lastRun, runs, fails, schedulerVars, coreVars, chat>>
    \/ \E p \in UnsupportedPayloads : UpsertRecordUnsupported(p) /\ UNCHANGED <<period, lastRun, runs, fails, schedulerVars, coreVars, chat>>
    \/ (inv.state = "running" /\ Query(1)) /\ UNCHANGED <<period, lastRun, runs, fails, schedulerVars, batchVars, coreVars, chat>>
    \/ (inv.state = "running" /\ WriteLedger(1)) /\ UNCHANGED <<period, lastRun, runs, fails, schedulerVars, batchVars, coreVars, chat>>
    \/ (inv.state = "running" /\ UpsertBatch(1)) /\ UNCHANGED <<period, lastRun, runs, fails, schedulerVars, batchVars, coreVars, chat>>
    \/ (inv.state = "running" /\ DeleteBatch(1)) /\ UNCHANGED <<period, lastRun, runs, fails, schedulerVars, batchVars, coreVars, chat>>
    \/ RecordDone /\ UNCHANGED <<period, lastRun, runs, fails, schedulerVars, coreVars, chat>>
    \/ Return /\ UNCHANGED <<period, lastRun, runs, fails, schedulerVars, coreVars, chat>>
    \/ \E t \in RaceTexts : (AllIdle /\ Edit(t)) /\ UNCHANGED <<period, lastRun, runs, fails, schedulerVars, batchVars, coreVars, chat>>

SpecSkip == Init /\ [][NextSkip]_vars

\* C35: an upsert record whose type matches no reader is skipped without
\* effect: Ledger and index are as the record found them, and the loop is
\* ready for the next record of the batch (or returns when none is left).
C35_UnsupportedTypeSkipped ==
    (snap.valid /\ snap.kind = "unsupported") =>
        /\ LedgerView = snap.ledger
        /\ index = snap.index
        /\ inv.state \in {"running", "returned"}
        /\ pc[1] = "idle"
        /\ (inv.state = "running" /\ inv.left > 0) => CanTake

\* The record of unsupported type was taken while the source had a row and
\* vectors, and a record of the batch is still to come.
C35_Witness ==
    /\ snap.valid /\ snap.kind = "unsupported"
    /\ Len(docs) > 0
    /\ DOMAIN index # {}
    /\ inv.state = "running" /\ inv.left > 0

\* ------------------------------------------ Indexer: the slack branch
\* The slack branch of handler over the messages of one channel (lines
\* 364-428).  conversations_history returns the channel's messages; the
\* first is a plain message without replies, the others are threads.
MaxMessages == 5
ChannelMessages ==
    [i \in 1..MaxMessages |->
        [ts |-> ToString(i), user |-> "U1", team |-> Team, thread |-> i > 1]]

\* query_id = f"p{message['ts'].replace('.', '')}"
QueryIdOf(message) == "p" \o message.ts

\* The metadata of the answer vector of a thread (lines 412-426).
AnswerVector(message) ==
    [title |-> QueryIdOf(message), team |-> message.team,
     text |-> <<QueryIdOf(message)>>, type |-> "answer"]

\* handler receives a slack record, for the first time or again after an
\* invocation failed or returned, and reads the channel's messages.
SlackStart ==
    /\ slack.pc \in {"idle", "failed", "done"}
    /\ slack' = [pc |-> "loop", todo |-> ChannelMessages, cur |-> <<>>]
    /\ UNCHANGED <<index, queries>>

\* The next message already has a row in the query table, or is not a
\* thread with replies: nothing is done for it (lines 387-389).
SlackSkip ==
    /\ slack.pc = "loop"
    /\ Len(slack.todo) > 0
    /\ LET message == Head(slack.todo)
       IN \/ QueryRow(message.user, QueryIdOf(message)) \in queries
          \/ ~message.thread
    /\ slack' = [slack EXCEPT !.todo = Tail(@)]
    /\ UNCHANGED <<index, queries>>

\* The next message is a thread without a row: the row is added and
\* committed (lines 404-411).
SlackAddQuery ==
    /\ slack.pc = "loop"
    /\ Len(slack.todo) > 0
    /\ LET message == Head(slack.todo)
       IN /\ QueryRow(message.user, QueryIdOf(message)) \notin queries
          /\ message.thread
          /\ queries' = queries \cup {QueryRow(message.user, QueryIdOf(message))}
          /\ slack' = [slack EXCEPT !.pc = "upsert", !.cur = <<message>>]
    /\ UNCHANGED index

\* index.upsert of the answer vector, with the query_id as its id (lines
\* 412-426), and on to the next message.
SlackUpsert ==
    /\ slack.pc = "upsert"
    /\ LET message == slack.cur[1]
       IN index' = [id \in DOMAIN index \cup {AnswerId(QueryIdOf(message))} |->
                       IF id = AnswerId(QueryIdOf(message))
                       THEN AnswerVector(message) ELSE index[id]]
    /\ slack' = [slack EXCEPT !.pc = "loop", !.todo = Tail(@), !.cur = <<>>]
    /\ UNCHANGED queries

\* index.upsert raises: the slack branch has no try, the exception leaves
\* handler and the invocation fails.
SlackUpsertRaises ==
    /\ slack.pc = "upsert"
    /\ slack' = [slack EXCEPT !.pc = "failed", !.cur = <<>>]
    /\ UNCHANGED <<index, queries>>

\* No message is left (line 427).
SlackEnd ==
    /\ slack.pc = "loop"
    /\ Len(slack.todo) = 0
    /\ slack' = [slack EXCEPT !.pc = "done"]
    /\ UNCHANGED <<index, queries>>

NextSlack ==
    \/ SlackStart
    \/ SlackSkip
    \/ SlackAddQuery
    \/ SlackUpsert
    \/ SlackUpsertRaises
    \/ SlackEnd

SlackStep ==
    NextSlack /\ UNCHANGED <<docs, content, clock, pc, local, period, lastRun, runs,
                             fails, schedulerVars, inv, deleted, snap, coreVars, chat>>

SpecSlack == Init /\ [][SlackStep]_vars

\* C34 (as claimed): once an invocation of the slack path has completed,
\* whether the first or a retry after a failure, every message that has a
\* row in the query table has a vector with its query_id in the index.
C34_QueryRowHasVector ==
    slack.pc = "done" =>
        \A row \in queries : AnswerId(row.query_id) \in DOMAIN index

\* ----------------------------------------------- Reader: a chat channel
\* One channel of the team's chat workspace.  Messages are posted at the
\* successive times of the clock; a message's ts is the time it was posted.
\* The conversion of ts to the "%Y-%m-%dT%H:%M:%S.%fZ" string and back to a
\* timestamp keeps the microseconds of ts, so source_last_updated is carried
\* as the ts itself.
MaxPosts == 3
MaxPending == 2
ChatChannel == "C1"

\* _should_index_slack_message: a question of fifteen words or a link.
should_index_slack_message(message) == message.indexable

\* conversations_history(channel, limit=1): the ts of the latest message,
\* or now() when the channel has none.
LatestTs ==
    IF chat.posted = {} THEN clock
    ELSE CHOOSE t \in {m.ts : m \in chat.posted} :
            \A m \in chat.posted : m.ts <= t

\* The descriptor _get_slack_channels builds for the channel.
get_slack_channels ==
    [team_id |-> Team, user_id |-> NoUser, type |-> "slack_channel",
     source_id |-> ChatChannel, source_last_updated |-> LatestTs,
     initial_index |-> FALSE]

\* _get_slack_channel_messages: the whole history for an initial index,
\* otherwise conversations_history(oldest=source_last_updated,
\* inclusive=False); the ts of the messages that pass the filter.
get_slack_channel_messages(content_store) ==
    LET messages == IF content_store.initial_index THEN chat.posted
                    ELSE {m \in chat.posted : m.ts > content_store.source_last_updated}
    IN {m.ts : m \in {x \in messages : should_index_slack_message(x)}}

\* Somebody posts a message in the channel.
PostMessage(indexable) ==
    /\ Cardinality(chat.posted) < MaxPosts
    /\ clock' = clock + 1
    /\ chat' = [chat EXCEPT !.posted = @ \cup {[ts |-> clock + 1, indexable |-> indexable]}]
    /\ UNCHANGED queue

\* The bot joins the channel: handle_member_join sends the initial-index
\* message, with the ts of the latest message as source_last_updated.
ChatJoin ==
    /\ ~chat.joined
    /\ queue' = Append(queue, [get_slack_channels EXCEPT !.initial_index = TRUE])
    /\ chat' = [chat EXCEPT !.joined = TRUE]
    /\ UNCHANGED clock

\* A poll of the workspace: the channel is listed, and since it has a Ledger
\* row its descriptor is enqueued when it is strictly newer than the row.
ChatList ==
    /\ chat.row.present
    /\ Len(queue) < MaxPending
    /\ queue' = IF get_slack_channels.source_last_updated > chat.row.updated_at
                THEN Append(queue, get_slack_channels)
                ELSE queue
    /\ chat' = [chat EXCEPT !.listed_at = clock]
    /\ UNCHANGED clock

\* The Indexer takes the oldest descriptor, extracts its messages and
\* writes the channel's Ledger row.
ChatExtract ==
    /\ queue # <<>>
    /\ LET content_store == Head(queue)
       IN chat' = [chat EXCEPT
              !.extracted = @ \cup get_slack_channel_messages(content_store),
              !.initial_at = IF chat.row.present THEN @ ELSE clock,
              !.row = [present |-> TRUE, updated_at |-> clock]]
    /\ queue' = Tail(queue)
    /\ UNCHANGED clock

NextChat ==
    \/ \E indexable \in BOOLEAN : PostMessage(indexable)
    \/ ChatJoin
    \/ ChatList
    \/ ChatExtract

ChatStep ==
    NextChat /\ UNCHANGED <<docs, indexerVars, batchVars, tokens, source, sched,
                            schedRuns, coreVars>>

SpecChat == Init /\ [][ChatStep]_vars

\* C33 (as claimed): no message falls between polls.  When the channel was
\* listed after its last message was posted and every descriptor enqueued
\* for it has been extracted, every indexable message posted after the
\* initial index was returned by some extraction.
C33_NoMessageBetweenPolls ==
    (chat.row.present /\ queue = <<>> /\ chat.listed_at = clock) =>
        \A m \in chat.posted :
            (should_index_slack_message(m) /\ m.ts > chat.initial_at) =>
                m.ts \in chat.extracted

====
